---- MODULE Spec2Model ----
(***************************************************************************)
(* Verification model of the skill-md-research evaluation pipeline:        *)
(*   - the raw-output unwrapping and the five domain extractors            *)
(*     (Terraform, SQL/dbt, Dockerfile, OpenAPI, commit message),          *)
(*   - evaluate_run (rule loop, auto_score / scored_rules bookkeeping),    *)
(*   - main (the batch loop that writes the CSV),                          *)
(*   - the chart rules whose detail strings are built from Python sets.    *)
(*                                                                         *)
(* Representation of strings.  A text is a non-empty sequence of lines     *)
(* (the text split at "\n"; the empty string is <<"">>).  A line is one of *)
(* a small alphabet of concrete lines per domain; what the regular         *)
(* expressions of the source see in a line (a fence, a marker, a keyword   *)
(* at the start, braces) is tabulated per line below.                      *)
(*                                                                         *)
(* Representation of JSON.  Every JSON value is a record with a kind field *)
(* k, so that values of different shapes can be compared.                  *)
(***************************************************************************)
EXTENDS Integers, Sequences, FiniteSets, TLC

VARIABLES
    domain,          \* which evaluator is running: "terraform", "sql", ...
    raw_output,      \* the raw_output string of the run, as an envelope
    has_yaml,        \* HAS_YAML: PyYAML could be imported
    pc,              \* position inside the extractor
    text_to_search,  \* the extractor's working text
    denied_content,  \* what extract_from_permission_denials returned
    ret,             \* the (artifact, error) pair the extractor returned
    exc              \* the exception that escaped, "none" if none

extract_vars == <<domain, raw_output, has_yaml, pc, text_to_search,
                  denied_content, ret, exc>>

-----------------------------------------------------------------------------
(* Bounds of the model *)

\* plain-text raw outputs have at most this many lines
MaxLines == 3
\* a permission_denials array has at most this many entries
MaxDenials == 2
\* a JSONL stream has at most this many lines
MaxEvents == 2

-----------------------------------------------------------------------------
(* Generic helpers *)

Min(a, b) == IF a < b THEN a ELSE b

\* all sequences over S of length lo..hi
SeqsOf(S, lo, hi) == UNION {[1..n -> S] : n \in lo..hi}

RECURSIVE SumLens(_)
SumLens(t) == IF t = <<>> THEN 0 ELSE Len(Head(t)) + SumLens(Tail(t))

\* len(text): the characters of the lines plus the newlines between them
TextLen(t) == SumLens(t) + Len(t) - 1

EmptyText == <<"">>

IsBlankLine(l) == l \in {"", "  "}

RECURSIVE DropLeadingBlank(_)
DropLeadingBlank(t) ==
    IF t = <<>> THEN <<>>
    ELSE IF IsBlankLine(Head(t)) THEN DropLeadingBlank(Tail(t))
    ELSE t

RECURSIVE DropTrailingBlank(_)
DropTrailingBlank(t) ==
    IF t = <<>> THEN <<>>
    ELSE IF IsBlankLine(t[Len(t)]) THEN DropTrailingBlank(SubSeq(t, 1, Len(t) - 1))
    ELSE t

\* str.strip() on a text whose non-blank lines carry no outer whitespace
Strip(t) ==
    LET s == DropTrailingBlank(DropLeadingBlank(t))
    IN  IF s = <<>> THEN EmptyText ELSE s

\* "\n".join(parts): the lines of the parts, one after the other
RECURSIVE JoinNL(_)
JoinNL(parts) ==
    IF parts = <<>> THEN EmptyText
    ELSE IF Len(parts) = 1 THEN parts[1]
    ELSE parts[1] \o JoinNL(Tail(parts))

\* "\n\n".join(parts): the parts with one empty line between them
RECURSIVE JoinBlank(_)
JoinBlank(parts) ==
    IF parts = <<>> THEN EmptyText
    ELSE IF Len(parts) = 1 THEN parts[1]
    ELSE parts[1] \o <<"">> \o JoinBlank(Tail(parts))

-----------------------------------------------------------------------------
(* Fenced blocks: the patterns  '''tag\s*\n(.*?)\n\s*'''  with re.DOTALL.   *)
(* A TLA+ string cannot hold a backtick: in every line of the model the    *)
(* apostrophe stands for the backtick, so "'''hcl" is the fence line that  *)
(* opens an hcl block.                                                     *)

FenceLines == {"'''", "'''hcl", "'''sql", "'''json", "'''yaml", "'''dockerfile",
               "'''text", "'''yml"}

\* a line on which the closing part  \n\s*'''  of a fence pattern can match
IsFenceStart(l) == l \in FenceLines

\* the first line at or after from that starts with ''', 0 if there is none
RECURSIVE FirstFenceFrom(_, _)
FirstFenceFrom(t, from) ==
    IF from > Len(t) THEN 0
    ELSE IF IsFenceStart(t[from]) THEN from
    ELSE FirstFenceFrom(t, from + 1)

\* the first line at or after from that is not blank, Len(t) + 1 if none
RECURSIVE FirstNonBlankFrom(_, _)
FirstNonBlankFrom(t, from) ==
    IF from > Len(t) THEN Len(t) + 1
    ELSE IF ~IsBlankLine(t[from]) THEN from
    ELSE FirstNonBlankFrom(t, from + 1)

\* The match of a fence pattern whose opener is line i.  The greedy \s* of
\* the opener takes the blank lines after it, so group(1) starts at the
\* first non-blank line k and runs to the first fence line after k; when
\* there is none, \s* gives a blank line back, the group is blank and the
\* closer is line k itself.
FenceMatchAt(t, i) ==
    LET k == FirstNonBlankFrom(t, i + 1)
        m == IF k <= Len(t) THEN FirstFenceFrom(t, k + 1) ELSE 0
    IN  IF m # 0 THEN [ok |-> TRUE, block |-> SubSeq(t, k, m - 1), closer |-> m]
        ELSE IF k <= Len(t) /\ k >= i + 2 /\ IsFenceStart(t[k])
             THEN [ok |-> TRUE, block |-> EmptyText, closer |-> k]
        ELSE [ok |-> FALSE, block |-> EmptyText, closer |-> 0]

\* the first line at or after from at which the pattern matches, 0 if none
RECURSIVE FirstOpenerFrom(_, _, _)
FirstOpenerFrom(t, from, openers) ==
    IF from > Len(t) THEN 0
    ELSE IF t[from] \in openers /\ FenceMatchAt(t, from).ok THEN from
    ELSE FirstOpenerFrom(t, from + 1, openers)

\* re.finditer(pattern, text, re.DOTALL): group(1) of the non-overlapping
\* matches from left to right; a match ends inside its closing fence line, so
\* the search resumes on the line after it
RECURSIVE FenceBlocks(_, _, _)
FenceBlocks(t, from, openers) ==
    LET i == FirstOpenerFrom(t, from, openers)
        m == FenceMatchAt(t, i)
    IN  IF i = 0 THEN <<>>
        ELSE <<m.block>> \o FenceBlocks(t, m.closer + 1, openers)

RECURSIVE MapStrip(_)
MapStrip(blocks) ==
    IF blocks = <<>> THEN <<>> ELSE <<Strip(Head(blocks))>> \o MapStrip(Tail(blocks))

-----------------------------------------------------------------------------
(* JSON values of a raw_output envelope *)

JAbsent == [k |-> "absent"]     \* the key is not in the mapping
JNull == [k |-> "null"]         \* null: falsy, not a string, not iterable
JList == [k |-> "list"]         \* a non-empty list: truthy, supports "in"
JStr(t) == [k |-> "str", v |-> t]
NonMap == [k |-> "nonmap"]      \* a value that is not a mapping (a string)

\* the value of an event's "part": a mapping with the keys text, tool and
\* state.input.content
PartMap(text, tool, content) ==
    [k |-> "map", text |-> text, tool |-> tool, content |-> content]

\* an entry of permission_denials: tool_name and tool_input.content
DenialMap(tool_name, content) ==
    [k |-> "map", tool_name |-> tool_name, content |-> content]

\* a JSON object of the envelope; type is "absent" when the key is missing
Obj(type, sessionID, part, result, denials) ==
    [k |-> "obj", type |-> type, sessionID |-> sessionID, part |-> part,
     result |-> result, denials |-> denials]

Garbage == [k |-> "garbage"]    \* a line that json.loads rejects, "{..."
NonDict == [k |-> "nondict"]    \* a line that parses to a list or a number

NoDenials == [k |-> "absent"]
DenialList(ds) == [k |-> "list", v |-> ds]

\* raw_output, by the shape of the whole string
RawEmpty == [k |-> "empty"]                       \* ""
RawBlank == [k |-> "blank"]                       \* " \n"
RawPlain(t) == [k |-> "plain", v |-> t]           \* text that is not JSON
RawSingle(doc, nl) == [k |-> "single", doc |-> doc, nl |-> nl]
                                                  \* one JSON document on one
                                                  \* line, nl: a "\n" follows
RawPretty(doc) == [k |-> "pretty", doc |-> doc]   \* one object over many lines
RawStream(ls) == [k |-> "stream", lines |-> ls]   \* two or more lines

\* not raw_output
RawFalsy(raw) == raw.k = "empty"
\* not raw_output.strip()
RawStripFalsy(raw) == raw.k \in {"empty", "blank"}

\* '\n' in raw_output and raw_output.lstrip().startswith('{')
LooksJsonl(raw) ==
    \/ raw.k = "single" /\ raw.nl /\ raw.doc.k = "obj"
    \/ raw.k = "pretty"
    \/ raw.k = "stream" /\ raw.lines[1].k \in {"obj", "garbage"}

\* raw_output.strip().split('\n'), each line as json.loads sees it
RawLines(raw) ==
    CASE raw.k = "single" -> <<raw.doc>>
      [] raw.k = "stream" -> raw.lines
      [] raw.k = "pretty" -> <<Garbage, Garbage>>
      [] OTHER -> <<>>

\* json.loads(raw_output): the document, or Garbage for json.JSONDecodeError
WholeParse(raw) ==
    CASE raw.k = "single" -> raw.doc
      [] raw.k = "pretty" -> raw.doc
      [] OTHER -> Garbage

-----------------------------------------------------------------------------
(* Step 0 of every extractor: the JSONL event stream *)

\* The loop over the lines.  acc = [is_jsonl, parts, exc]; parts holds the
\* JSON values appended to text_parts.  KeyError and JSONDecodeError are
\* caught (continue); a part that is not a mapping raises TypeError, which
\* is not caught and leaves the loop.
RECURSIVE JsonlLoop(_, _)
JsonlLoop(ls, acc) ==
    IF ls = <<>> \/ acc.exc # "none" THEN acc
    ELSE LET evt == Head(ls)
             recognised == evt.k = "obj" /\ evt.type # "absent" /\ evt.sessionID
             acc1 == IF recognised THEN [acc EXCEPT !.is_jsonl = TRUE] ELSE acc
         IN  IF ~recognised \/ evt.type # "text" THEN JsonlLoop(Tail(ls), acc1)
             ELSE IF evt.part.k = "absent" THEN JsonlLoop(Tail(ls), acc1)
             ELSE IF evt.part.k = "nonmap"
                  THEN [acc1 EXCEPT !.exc = "TypeError"]
             ELSE IF evt.part.text.k = "absent" THEN JsonlLoop(Tail(ls), acc1)
             ELSE JsonlLoop(Tail(ls),
                            [acc1 EXCEPT !.parts = Append(@, evt.part.text)])

RECURSIVE StrValues(_)
StrValues(parts) ==
    IF parts = <<>> THEN <<>> ELSE <<Head(parts).v>> \o StrValues(Tail(parts))

\* Step 0 as a whole: [exc, text]; text is the new working text, or the
\* old one when no event stream was recognised.  '\n'.join raises TypeError
\* when a collected part.text is not a string.
jsonl_step(raw, text) ==
    IF ~LooksJsonl(raw) THEN [exc |-> "none", text |-> text]
    ELSE LET acc == JsonlLoop(RawLines(raw),
                              [is_jsonl |-> FALSE, parts |-> <<>>, exc |-> "none"])
         IN  IF acc.exc # "none" THEN [exc |-> acc.exc, text |-> text]
             ELSE IF ~acc.is_jsonl THEN [exc |-> "none", text |-> text]
             ELSE IF acc.parts = <<>> THEN [exc |-> "none", text |-> JStr(EmptyText)]
             ELSE IF \E i \in 1..Len(acc.parts) : acc.parts[i].k # "str"
                  THEN [exc |-> "TypeError", text |-> text]
             ELSE [exc |-> "none", text |-> JStr(JoinNL(StrValues(acc.parts)))]

-----------------------------------------------------------------------------
(* Step 1 of every extractor: the Claude CLI JSON response *)

\* a CLI step that never takes the result
cli_json_step_skipped(raw, text) == text

\* text_to_search = cli_response["result"] when the whole string is one
\* JSON object with a "result" key; the value is taken whatever its type
cli_json_step(raw, text) ==
    LET cli_response == WholeParse(raw)
    IN  IF cli_response.k = "obj" /\ cli_response.result.k # "absent"
        THEN cli_response.result
        ELSE text

-----------------------------------------------------------------------------
(* extract_from_permission_denials (scripts/evaluate.py) *)

\* len(content) > 20
MinContentLen == 20

IsCandidate(content) == content.k = "str" /\ TextLen(content.v) > MinContentLen

\* Format 1: the loop over permission_denials; acc = [cands, exc].
\* denial.get on an entry that is not a mapping raises AttributeError.
RECURSIVE DenialLoop(_, _)
DenialLoop(ds, acc) ==
    IF ds = <<>> \/ acc.exc # "none" THEN acc
    ELSE LET denial == Head(ds)
         IN  IF denial.k = "nonmap" THEN [acc EXCEPT !.exc = "AttributeError"]
             ELSE IF denial.tool_name # "Write" THEN DenialLoop(Tail(ds), acc)
             ELSE IF IsCandidate(denial.content)
                  THEN DenialLoop(Tail(ds),
                                  [acc EXCEPT !.cands = Append(@, denial.content.v)])
             ELSE DenialLoop(Tail(ds), acc)

\* Format 2: the loop over the JSONL lines; part.get on a part that is not
\* a mapping raises AttributeError.
RECURSIVE WriteEventLoop(_, _)
WriteEventLoop(ls, acc) ==
    IF ls = <<>> \/ acc.exc # "none" THEN acc
    ELSE LET evt == Head(ls)
         IN  IF evt.k # "obj" \/ evt.type # "tool_use"
                  THEN WriteEventLoop(Tail(ls), acc)
             ELSE IF evt.part.k = "absent" THEN WriteEventLoop(Tail(ls), acc)
             ELSE IF evt.part.k = "nonmap"
                  THEN [acc EXCEPT !.exc = "AttributeError"]
             ELSE IF evt.part.tool # "write" THEN WriteEventLoop(Tail(ls), acc)
             ELSE IF IsCandidate(evt.part.content)
                  THEN WriteEventLoop(Tail(ls),
                                      [acc EXCEPT !.cands = Append(@, evt.part.content.v)])
             ELSE WriteEventLoop(Tail(ls), acc)

\* max(candidates, key=len): the first candidate of the greatest length
RECURSIVE MaxByLen(_)
MaxByLen(cands) ==
    IF Len(cands) = 1 THEN cands[1]
    ELSE LET rest == MaxByLen(Tail(cands))
         IN  IF TextLen(rest) > TextLen(Head(cands)) THEN rest ELSE Head(cands)

\* [exc, content]; content is JNull for None
extract_from_permission_denials(raw) ==
    IF RawFalsy(raw) THEN [exc |-> "none", content |-> JNull]
    ELSE LET cli_response == WholeParse(raw)
             f1 == IF cli_response.k = "obj" /\ cli_response.denials.k = "list"
                   THEN DenialLoop(cli_response.denials.v,
                                   [cands |-> <<>>, exc |-> "none"])
                   ELSE [cands |-> <<>>, exc |-> "none"]
             f2 == IF f1.exc = "none" /\ f1.cands = <<>> /\ LooksJsonl(raw)
                   THEN WriteEventLoop(RawLines(raw), f1)
                   ELSE f1
         IN  IF f2.exc # "none" THEN [exc |-> f2.exc, content |-> JNull]
             ELSE IF f2.cands = <<>> THEN [exc |-> "none", content |-> JNull]
             ELSE [exc |-> "none", content |-> JStr(MaxByLen(f2.cands))]

-----------------------------------------------------------------------------
(* Terraform: lines, extract_terraform (domains/terraform) *)

TfRes == "resource \"aws_s3_bucket\" \"b\" {}"
TfVar == "variable \"a\" {}"
TfOut == "output \"id\" { value = 1 }"
TfOpen == "resource \"aws_vpc\" \"v\" {"
TfClose == "}"
TfData == "The data is shown below."
TfNote == "Note: run it."
TfProse == "Here you go:"

TfLines == {TfRes, TfVar, TfOut, TfOpen, TfClose, TfData, TfNote, TfProse,
            "", "'''", "'''hcl"}

\* "resource " in line or "variable " in line
TfMarkerLine(l) == l \in {TfRes, TfVar, TfOpen}
\* re.search(rf'\b{kw}\s', line) for one of the seven keywords
TfKeywordLine(l) == l \in {TfRes, TfVar, TfOut, TfOpen, TfData}
\* re.match(r'\s*(terraform|provider|resource|variable|data|locals|output)\s', line)
TfStartLine(l) == l \in {TfRes, TfVar, TfOut, TfOpen}
\* stripped.count('{') - stripped.count('}')
BraceDelta(l) == CASE l = TfOpen -> 1 [] l = TfClose -> 0 - 1 [] OTHER -> 0
\* '}' in stripped
HasCloseBrace(l) == l \in {TfRes, TfVar, TfOut, TfClose}
\* lower.startswith(s) for one of the explanation_starters
IsExplanationLine(l) == l \in {TfNote}

TfHasMarker(t) == \E i \in 1..Len(t) : TfMarkerLine(t[i])

_looks_like_terraform(t) == \E i \in 1..Len(t) : TfKeywordLine(t[i])

\* the index of the last line at which brace_depth <= 0 and the line holds
\* a closing brace; 0 when there is none (last_close_idx = -1)
RECURSIVE LastCloseIdx(_, _, _, _)
LastCloseIdx(t, i, depth, last) ==
    IF i > Len(t) THEN last
    ELSE LET d == depth + BraceDelta(t[i])
         IN  LastCloseIdx(t, i + 1, d,
                          IF d <= 0 /\ HasCloseBrace(t[i]) THEN i ELSE last)

\* the first line after last that starts an explanation, 0 if none
RECURSIVE FirstExplanationFrom(_, _)
FirstExplanationFrom(t, from) ==
    IF from > Len(t) THEN 0
    ELSE IF ~IsBlankLine(t[from]) /\ IsExplanationLine(t[from]) THEN from
    ELSE FirstExplanationFrom(t, from + 1)

_trim_trailing_explanation_tf(t) ==
    LET last == LastCloseIdx(t, 1, 0, 0)
        e == IF last >= 1 /\ last < Len(t) THEN FirstExplanationFrom(t, last + 1) ELSE 0
        kept == IF e # 0 THEN SubSeq(t, 1, e - 1) ELSE t
        res == DropTrailingBlank(kept)
    IN  IF res = <<>> THEN EmptyText ELSE res

RECURSIVE FirstTfStart(_, _)
FirstTfStart(t, from) ==
    IF from > Len(t) THEN 0
    ELSE IF TfStartLine(t[from]) THEN from
    ELSE FirstTfStart(t, from + 1)

RECURSIVE SelectTf(_)
SelectTf(blocks) ==
    IF blocks = <<>> THEN <<>>
    ELSE IF _looks_like_terraform(Head(blocks))
         THEN <<Head(blocks)>> \o SelectTf(Tail(blocks))
    ELSE SelectTf(Tail(blocks))

\* the (artifact, error) pairs of the extractors; None is JNull
Found(artifact) == [artifact |-> artifact, error |-> JNull]

\* a failed extraction that gives no reason
FailedSilently(msg) == [artifact |-> JNull, error |-> JNull]
Failed(msg) == [artifact |-> JNull, error |-> JStr(<<msg>>)]

\* Steps 2 and 3 of extract_terraform on a working text that is a string
tf_cascade(t) ==
    LET all_blocks == SelectTf(MapStrip(FenceBlocks(t, 1, {"'''hcl"})
                                        \o FenceBlocks(t, 1, {"'''"})))
        hcl_start == FirstTfStart(t, 1)
        candidate == _trim_trailing_explanation_tf(Strip(SubSeq(t, hcl_start, Len(t))))
    IN  IF all_blocks # <<>> THEN Found(JStr(JoinBlank(all_blocks)))
        ELSE IF hcl_start # 0 /\ _looks_like_terraform(candidate)
             THEN Found(JStr(candidate))
        ELSE Failed("could not extract Terraform HCL from output")

-----------------------------------------------------------------------------
(* SQL / dbt: lines, extract_dbt_models (domains/sql-query) *)

SqlNameA == "-- models/staging/stg_a.sql"
SqlNameB == "-- stg_b.sql"
SqlSel == "SELECT id FROM customers"
SqlProse == "Here you go:"
SqlWith == "WITH a AS (b)"

SqlLines == {SqlNameA, SqlNameB, SqlSel, SqlProse, "", "'''", "'''sql"}

\* "SELECT" in line.upper() or "WITH" in line.upper()
SqlMarkerLine(l) == l \in {SqlSel, SqlWith}
SqlHasMarker(t) == \E i \in 1..Len(t) : SqlMarkerLine(t[i])

\* group(1) of re.search(r'--\s*(?:models/\S+/)?(\w+)\.sql', line), "" if
\* the line does not match
NameOf(l) == CASE l = SqlNameA -> "stg_a" [] l = SqlNameB -> "stg_b" [] OTHER -> ""

\* re.match(r'^'''sql\s*$', line.strip(), re.IGNORECASE)
IsSqlOpener(l) == l = "'''sql"

\* the loop  for j in range(i - 1, max(i - 5, -1), -1): the name on the
\* nearest of the four lines before the opener, "" for None
RECURSIVE LookBack(_, _, _)
LookBack(t, j, lowest) ==
    IF j < lowest THEN ""
    ELSE IF NameOf(t[j]) # "" THEN NameOf(t[j])
    ELSE LookBack(t, j - 1, lowest)

\* a dict in which the first value of a key stays
PutKeepingFirst(models, name, sql) ==
    IF \E j \in 1..Len(models) : models[j].name = name THEN models
    ELSE Append(models, [name |-> name, sql |-> sql])

\* models[name] = sql on a dict kept as the sequence of its items
RECURSIVE Put(_, _, _)
Put(models, name, sql) ==
    IF models = <<>> THEN <<[name |-> name, sql |-> sql]>>
    ELSE IF Head(models).name = name
         THEN <<[name |-> name, sql |-> sql]>> \o Tail(models)
    ELSE <<Head(models)>> \o Put(Tail(models), name, sql)

\* Step 2: the while loop over the lines
RECURSIVE SqlBlockLoop(_, _, _)
SqlBlockLoop(t, i, models) ==
    IF i > Len(t) THEN models
    ELSE IF ~IsSqlOpener(t[i]) THEN SqlBlockLoop(t, i + 1, models)
    ELSE LET model_name == LookBack(t, i - 1, IF i - 4 > 1 THEN i - 4 ELSE 1)
             j == FirstFenceFrom(t, i + 1)
             stop == IF j = 0 THEN Len(t) + 1 ELSE j
             sql_text == Strip(SubSeq(t, i + 1, stop - 1))
             inner == NameOf(sql_text[1])
             key == IF model_name # "" THEN model_name
                    ELSE IF inner # "" THEN inner
                    ELSE "unnamed_" \o ToString(Len(models) + 1)
         IN  SqlBlockLoop(t, stop + 1,
                          IF sql_text # EmptyText THEN Put(models, key, sql_text)
                          ELSE models)

Models(items) == [k |-> "models", v |-> items]

\* Step 2 and the single-block fallback of extract_dbt_models on a working
\* text that is a string
sql_cascade(t) ==
    LET models == SqlBlockLoop(t, 1, <<>>)
        sql_fence == FirstOpenerFrom(t, 1, {"'''sql"})
    IN  IF models # <<>> THEN Found(Models(models))
        ELSE IF sql_fence # 0
             THEN Found(Models(<<[name |-> "unnamed_1",
                                  sql |-> Strip(FenceMatchAt(t, sql_fence).block)]>>))
        ELSE Failed("could not extract any SQL model files from output")

-----------------------------------------------------------------------------
(* Dockerfile: lines, extract_dockerfile (papers/.../domains/dockerfile) *)

DkFrom == "FROM node:18"
DkCmd == "CMD [\"node\", \"x.js\"]"
DkProse == "Here you go:"
DkHeader == "Dockerfile:"

DkLines == {DkFrom, DkCmd, DkProse, DkHeader, "", "'''", "'''dockerfile"}

\* "FROM " in line; the same lines hold "FROM"
DkMarkerLine(l) == l \in {DkFrom}
DkHasMarker(t) == \E i \in 1..Len(t) : DkMarkerLine(t[i])
\* the line matches ^FROM\s+\S+
DkFromStart(l) == l \in {DkFrom}
\* the line starts with [A-Z]
DkUpperStart(l) == l \in {DkFrom, DkCmd, DkProse, DkHeader}
\* the line ends with  Dockerfile:  or  dockerfile:
DkIsHeader(l) == l \in {DkHeader}

\* len(candidate) > 20
DockerMinLen == 20

\* the first candidate of the blocks that holds FROM, <<>> if none
RECURSIVE FirstWithFrom(_)
FirstWithFrom(blocks) ==
    IF blocks = <<>> THEN <<>>
    ELSE IF DkHasMarker(Head(blocks)) THEN Head(blocks)
    ELSE FirstWithFrom(Tail(blocks))

\* the first header line that a "\n" follows, 0 if none
RECURSIVE FirstHeader(_, _)
FirstHeader(t, from) ==
    IF from >= Len(t) THEN 0
    ELSE IF DkIsHeader(t[from]) THEN from
    ELSE FirstHeader(t, from + 1)

\* Step 3: the lines of rest up to the second of two consecutive blank lines
RECURSIVE TakeUntilDoubleBlank(_, _)
TakeUntilDoubleBlank(rest, taken) ==
    IF rest = <<>> THEN taken
    ELSE IF taken # <<>> /\ Head(rest) = "" /\ IsBlankLine(taken[Len(taken)])
         THEN taken
    ELSE TakeUntilDoubleBlank(Tail(rest), Append(taken, Head(rest)))

\* Step 4: the last line of group(1) of  ^(FROM\s+\S+.*?)(?:\n\n[A-Z]|\Z)
\* when the group starts on line f
RECURSIVE FromGroupEnd(_, _)
FromGroupEnd(t, e) ==
    IF e + 2 > Len(t) THEN Len(t)
    ELSE IF t[e + 1] = "" /\ DkUpperStart(t[e + 2]) THEN e
    ELSE FromGroupEnd(t, e + 1)

RECURSIVE FirstFromStart(_, _)
FirstFromStart(t, from) ==
    IF from > Len(t) THEN 0
    ELSE IF DkFromStart(t[from]) THEN from
    ELSE FirstFromStart(t, from + 1)

\* Steps 2 to 4 of extract_dockerfile on a working text that is a string
dk_cascade(t) ==
    LET fenced == FirstWithFrom(MapStrip(FenceBlocks(t, 1, {"'''dockerfile"})
                                         \o FenceBlocks(t, 1, {"'''"})))
        h == FirstHeader(t, 1)
        k == FirstNonBlankFrom(t, h + 1)
        rest == IF k <= Len(t) THEN SubSeq(t, k, Len(t)) ELSE <<t[Len(t)]>>
        after_header == Strip(TakeUntilDoubleBlank(rest, <<>>))
        f == FirstFromStart(t, 1)
        plain == Strip(SubSeq(t, f, FromGroupEnd(t, f)))
    IN  IF fenced # <<>> THEN Found(JStr(fenced))
        ELSE IF h # 0 /\ DkHasMarker(after_header) THEN Found(JStr(after_header))
        ELSE IF f # 0 /\ TextLen(plain) > DockerMinLen THEN Found(JStr(plain))
        ELSE Failed("could not extract Dockerfile from output")

-----------------------------------------------------------------------------
(* OpenAPI: lines, extract_spec (papers/.../domains/openapi-spec) *)

OaJson == "{\"openapi\": \"3.0.0\", \"paths\": {}}"
OaBad == "{\"openapi\": \"3.0.0\""
OaYaml == "openapi: 3.0.0"
OaYamlOther == "title: demo"
OaList == "[1, 2]"
OaProse == "Here is the spec."

OaLines == {OaJson, OaBad, OaYaml, OaYamlOther, OaList, OaProse,
            "", "'''", "'''json", "'''yaml"}

\* the text of the whole raw_output, when the spec that is returned is the
\* JSON envelope itself
OaEnvelope == <<"<raw_output>">>

RECURSIVE NonBlank(_)
NonBlank(t) ==
    IF t = <<>> THEN <<>>
    ELSE IF IsBlankLine(Head(t)) THEN NonBlank(Tail(t))
    ELSE <<Head(t)>> \o NonBlank(Tail(t))

\* json.loads(content) returns a dict
JsonDict(t) == NonBlank(t) = <<OaJson>>

\* yaml.safe_load(content) returns a dict: a block mapping of one key per
\* line, or the one-line JSON object as a flow mapping; everything else is
\* a scalar, a list, None or a yaml.YAMLError
YamlDict(t) ==
    LET nb == NonBlank(t)
    IN  /\ nb # <<>>
        /\ \/ nb = <<OaJson>>
           \/ \A i \in 1..Len(nb) : nb[i] \in {OaYaml, OaYamlOther}

\* "openapi" in obj or "paths" in obj, for a dict that yaml.safe_load returned
HasSpecKey(t) == \E i \in 1..Len(t) : t[i] \in {OaJson, OaYaml}

Dict(src) == [k |-> "dict", v |-> src]
NoSpec == [k |-> "nospec"]

\* Step 2 for one fence pattern: re.search, then JSON, then YAML
FencedSpec(t, openers, yaml_ok) ==
    LET i == FirstOpenerFrom(t, 1, openers)
        content == FenceMatchAt(t, i).block
    IN  IF i = 0 THEN NoSpec
        ELSE IF JsonDict(content) THEN Dict(NonBlank(content))
        ELSE IF yaml_ok /\ YamlDict(content) THEN Dict(NonBlank(content))
        ELSE NoSpec

\* the first line that holds "{", 0 if none
RECURSIVE FirstBraceLine(_, _)
FirstBraceLine(t, from) ==
    IF from > Len(t) THEN 0
    ELSE IF t[from] \in {OaJson, OaBad} THEN from
    ELSE FirstBraceLine(t, from + 1)

\* Step 5: the braces of OaJson balance at the end of its line and the text
\* between them parses; the brace that OaBad opens is never closed
BraceSpec(t) ==
    LET b == FirstBraceLine(t, 1)
    IN  IF b # 0 /\ t[b] = OaJson THEN Dict(<<OaJson>>) ELSE NoSpec

\* the first of the specs that is not NoSpec
RECURSIVE FirstSpec(_)
FirstSpec(specs) ==
    IF specs = <<>> THEN NoSpec
    ELSE IF Head(specs) # NoSpec THEN Head(specs)
    ELSE FirstSpec(Tail(specs))

\* Steps 2 to 5 of extract_spec for one candidate that is a string
oa_candidate(t, yaml_ok) ==
    FirstSpec(<<FencedSpec(t, {"'''json"}, yaml_ok),
                FencedSpec(t, {"'''yaml"}, yaml_ok),
                FencedSpec(t, {"'''yml"}, yaml_ok),
                FencedSpec(t, {"'''"}, yaml_ok),
                IF JsonDict(t) THEN Dict(NonBlank(t)) ELSE NoSpec,
                IF yaml_ok /\ YamlDict(t) /\ HasSpecKey(t)
                THEN Dict(NonBlank(t)) ELSE NoSpec,
                BraceSpec(t)>>)

-----------------------------------------------------------------------------
(* Commit message: lines, extract_commit_message (papers/.../commit-message) *)

CmSubj == "feat(api): add login"
CmBadType == "foo: bar thing"
CmBody == "Add the login endpoint."
CmExpl == "This commit adds login."
CmHeader == "Commit message:"
CmHeader2 == "the commit message:"

CmLines == {CmSubj, CmBadType, CmBody, CmExpl, CmHeader, CmHeader2,
            "", "'''", "'''text"}

\* re.match(r'^[a-z]+[(!:]', line)
CmPrefixLine(l) == l \in {CmSubj, CmBadType}
\* SUBJECT_RE.match(line) with a type in VALID_TYPES
CmSubjectLine(l) == l \in {CmSubj}
\* the line ends with a match of  commit\s+message:?
CmHeaderLine(l) == l \in {CmHeader, CmHeader2}
\* the line ends with a match of  the commit message:?
CmHeader2Line(l) == l \in {CmHeader2}

\* lines of a message body: a footer, a separator, an explanation opener
CmFooter == "Refs: #12"
CmRule == "---"
CmLetMe == "Let me explain."

_is_footer_line(l) == l \in {CmFooter}
_is_body_line(l) == l \notin {CmExpl, CmHeader2, CmRule}
_is_explanation_start(l) == l \in {CmExpl, CmHeader2, CmLetMe}

\* re.match(r'^[a-z]+[(!:]', text.strip())
CmHasMarker(t) == CmPrefixLine(Strip(t)[1])

_looks_like_commit(t) == CmSubjectLine(Strip(<<t[1]>>)[1])

\* the loop of _trim_trailing_explanation; st = [out, blank_seen, in_body]
RECURSIVE TrimLoop(_, _, _)
TrimLoop(t, i, st) ==
    IF i > Len(t) THEN st.out
    ELSE LET line == t[i]
         IN  IF i = 1 THEN TrimLoop(t, i + 1, [st EXCEPT !.out = Append(@, line)])
             ELSE IF IsBlankLine(line)
                  THEN TrimLoop(t, i + 1, [st EXCEPT !.out = Append(@, line),
                                                     !.blank_seen = TRUE])
             ELSE IF st.blank_seen /\ ~st.in_body
                  THEN IF _is_footer_line(line) \/ _is_body_line(line)
                       THEN TrimLoop(t, i + 1, [st EXCEPT !.out = Append(@, line),
                                                          !.in_body = TRUE])
                       ELSE st.out
             ELSE IF st.in_body
                  THEN IF st.blank_seen /\ _is_explanation_start(line)
                       THEN st.out
                       ELSE TrimLoop(t, i + 1, [st EXCEPT !.out = Append(@, line),
                                                          !.blank_seen = FALSE])
             ELSE TrimLoop(t, i + 1, [st EXCEPT !.out = Append(@, line),
                                                !.blank_seen = FALSE])

_trim_trailing_explanation(t) ==
    LET out == DropTrailingBlank(
                   TrimLoop(t, 1, [out |-> <<>>, blank_seen |-> FALSE,
                                   in_body |-> FALSE]))
    IN  IF out = <<>> THEN EmptyText ELSE out

\* the first header line of the set that a "\n" follows, 0 if none
RECURSIVE FirstCmHeader(_, _, _)
FirstCmHeader(t, from, second) ==
    IF from >= Len(t) THEN 0
    ELSE IF (IF second THEN CmHeader2Line(t[from]) ELSE CmHeaderLine(t[from]))
         THEN from
    ELSE FirstCmHeader(t, from + 1, second)

\* Step 3 for one header pattern: the candidate, EmptyText when no match
AfterHeader(t, second) ==
    LET h == FirstCmHeader(t, 1, second)
    IN  IF h = 0 THEN EmptyText
        ELSE _trim_trailing_explanation(Strip(SubSeq(t, h + 1, Len(t))))

RECURSIVE FirstSubject(_, _)
FirstSubject(t, from) ==
    IF from > Len(t) THEN 0
    ELSE IF CmSubjectLine(t[from]) THEN from
    ELSE FirstSubject(t, from + 1)

\* Steps 2 to 4 of extract_commit_message on a working text that is a string
cm_cascade(t) ==
    LET i == FirstOpenerFrom(t, 1, {"'''", "'''text"})
        fenced == Strip(FenceMatchAt(t, i).block)
        h1 == AfterHeader(t, FALSE)
        h2 == AfterHeader(t, TRUE)
        s == FirstSubject(t, 1)
    IN  IF i # 0 /\ _looks_like_commit(fenced) THEN Found(JStr(fenced))
        ELSE IF _looks_like_commit(h1) THEN Found(JStr(h1))
        ELSE IF _looks_like_commit(h2) THEN Found(JStr(h2))
        ELSE IF s # 0
             THEN Found(JStr(_trim_trailing_explanation(Strip(SubSeq(t, s, Len(t))))))
        ELSE Failed("could not extract commit message from output")

-----------------------------------------------------------------------------
(* The inputs of the extractors *)

Domains == {"terraform", "sql", "dockerfile", "openapi", "commit"}

\* the lines a plain-text raw_output of the domain is made of
LinesOf(d) ==
    CASE d = "terraform" -> TfLines
      [] d = "sql" -> SqlLines
      [] d = "dockerfile" -> DkLines
      [] d = "openapi" -> OaLines
      [] d = "commit" -> CmLines

\* the strings that occur inside an envelope (result, part.text, content):
\* with and without the marker, longer and shorter than 20 characters, fenced
Pool(d) ==
    CASE d = "terraform" ->
           {<<TfRes>>, <<TfVar>>, <<TfData, TfOut>>, <<"'''hcl", TfRes, TfVar, "'''">>}
      [] d = "sql" ->
           {<<SqlNameA, "'''sql", SqlSel, "'''">>, <<SqlSel>>, <<SqlWith>>,
            <<SqlProse, SqlNameA, SqlNameB>>}
      [] d = "dockerfile" ->
           {<<DkFrom, DkCmd>>, <<DkFrom>>, <<DkProse, "", DkCmd, DkCmd>>,
            <<"'''dockerfile", DkFrom, "'''">>}
      [] d = "openapi" ->
           {<<OaJson>>, <<OaList>>, <<OaProse, OaProse>>, <<"'''json", OaJson, "'''">>}
      [] d = "commit" ->
           {<<CmSubj, "", CmBody>>, <<CmSubj>>, <<CmHeader, CmBody, CmExpl>>,
            <<"'''text", CmSubj, "'''">>}

\* the values of a "result" key
Results(d) == {JAbsent, JNull, JList} \cup {JStr(p) : p \in Pool(d)}

\* the values of tool_input.content and of part.state.input.content
Contents(d) == {JNull} \cup {JStr(p) : p \in Pool(d)}

\* the entries of a permission_denials array
Denials(d) ==
    {NonMap} \cup {DenialMap("Write", c) : c \in Contents(d)}
             \cup {DenialMap("Read", JStr(p)) : p \in {CHOOSE q \in Pool(d) : TRUE}}

DenialLists(d) ==
    {NoDenials} \cup {DenialList(ds) : ds \in SeqsOf(Denials(d), 0, MaxDenials)}

NoPart == [k |-> "absent"]

\* the Claude CLI response: one JSON object with result and permission_denials
CliObjs(d) ==
    {Obj("absent", FALSE, NoPart, r, ds) : r \in Results(d), ds \in DenialLists(d)}

\* the events of an opencode stream
TextEvents(d) ==
    {Obj("text", TRUE, p, JAbsent, NoDenials) :
        p \in {NoPart, NonMap}
              \cup {PartMap(x, "absent", JAbsent) :
                        x \in {JAbsent, JNull} \cup {JStr(q) : q \in Pool(d)}}}

ToolEvents(d) ==
    {Obj("tool_use", TRUE, p, JAbsent, NoDenials) :
        p \in {NoPart, NonMap, PartMap(JAbsent, "read", JAbsent)}
              \cup {PartMap(JAbsent, "write", c) : c \in Contents(d)}}

OtherEvents(d) ==
    {Obj("step_finish", TRUE, NoPart, JAbsent, NoDenials),
     Obj("text", FALSE, NoPart, JAbsent, NoDenials)}

EventObjs(d) == TextEvents(d) \cup ToolEvents(d) \cup OtherEvents(d)

\* one object that is an event and a CLI response at once
HybridObjs(d) ==
    {Obj("text", TRUE, PartMap(JStr(p), "absent", JAbsent), JStr(q), NoDenials) :
        p \in Pool(d), q \in Pool(d)}
    \cup {Obj("tool_use", TRUE, PartMap(JAbsent, "write", JStr(p)), JAbsent,
              DenialList(<<DenialMap("Write", JStr(q))>>)) :
              p \in Pool(d), q \in Pool(d)}

StreamLines(d) == EventObjs(d) \cup {Garbage, NonDict}

Streams(d) ==
    {ls \in SeqsOf(StreamLines(d), 2, MaxEvents) : ls[1].k \in {"obj", "garbage"}}

PlainTexts(d) == {t \in SeqsOf(LinesOf(d), 1, MaxLines) : Strip(t) # EmptyText}

RawOutputs(d) ==
    {RawEmpty, RawBlank, RawSingle(NonDict, FALSE)}
    \cup {RawPlain(t) : t \in PlainTexts(d)}
    \cup {RawSingle(doc, FALSE) : doc \in CliObjs(d)}
    \cup {RawSingle(doc, nl) : doc \in EventObjs(d) \cup HybridObjs(d), nl \in BOOLEAN}
    \cup {RawPretty(doc) : doc \in {c \in CliObjs(d) : c.denials = NoDenials}}
    \cup {RawStream(ls) : ls \in Streams(d)}

-----------------------------------------------------------------------------
(* The extractors, step by step *)

\* the working text when it is still raw_output and raw_output is JSON
RawText == [k |-> "raw"]

\* text_to_search = raw_output
InitialText(raw) ==
    CASE raw.k = "plain" -> JStr(raw.v)
      [] raw.k = "blank" -> JStr(<<"  ">>)
      [] OTHER -> RawText

StrOf(x) == IF x.k = "str" THEN {x.v} ELSE {}

\* the strings that occur, JSON-encoded, inside a document of raw_output
DocTexts(doc) ==
    IF doc.k # "obj" THEN {}
    ELSE StrOf(doc.result)
         \cup (IF doc.part.k = "map"
               THEN StrOf(doc.part.text) \cup StrOf(doc.part.content) ELSE {})
         \cup (IF doc.denials.k = "list"
               THEN UNION {IF doc.denials.v[i].k = "map"
                           THEN StrOf(doc.denials.v[i].content) ELSE {} :
                           i \in 1..Len(doc.denials.v)}
               ELSE {})

EmbeddedTexts(raw) ==
    CASE raw.k \in {"single", "pretty"} -> DocTexts(raw.doc)
      [] raw.k = "stream" -> UNION {DocTexts(raw.lines[i]) : i \in 1..Len(raw.lines)}
      [] OTHER -> {}

\* the marker test of Step 1b on a string
HasMarker(d, t) ==
    CASE d = "terraform" -> TfHasMarker(t)
      [] d = "sql" -> SqlHasMarker(t)
      [] d = "dockerfile" -> DkHasMarker(t)
      [] d = "commit" -> CmHasMarker(t)
      [] OTHER -> FALSE

\* the marker test on the working text; JSON encoding keeps the marker of an
\* embedded string, and a JSON document never starts like a commit subject
WorkingHasMarker(d, raw, x) ==
    CASE x.k = "str" -> HasMarker(d, x.v)
      [] x.k = "raw" -> d # "commit" /\ \E t \in EmbeddedTexts(raw) : HasMarker(d, t)
      [] OTHER -> FALSE

\* the exception of the marker test on a working text that is not a string:
\*   "resource " not in None            TypeError   (terraform, dockerfile)
\*   text_to_search.upper() / .strip()  AttributeError   (sql, commit)
MarkerTestRaises(d, x) ==
    CASE d \in {"terraform", "dockerfile"} /\ x.k = "null" -> "TypeError"
      [] d \in {"sql", "commit"} /\ x.k \in {"null", "list"} -> "AttributeError"
      [] OTHER -> "none"

\* Step 1b: [exc, text, denied, direct]; direct: the Dockerfile extractor
\* returns the denied content at once
fallback_step(d, raw, x) ==
    LET f == extract_from_permission_denials(raw)
        keep == [exc |-> "none", text |-> x, denied |-> JNull, direct |-> FALSE]
    IN  IF MarkerTestRaises(d, x) # "none"
             THEN [keep EXCEPT !.exc = MarkerTestRaises(d, x)]
        ELSE IF d # "openapi" /\ WorkingHasMarker(d, raw, x) THEN keep
        ELSE IF f.exc # "none" THEN [keep EXCEPT !.exc = f.exc]
        ELSE IF d = "openapi" THEN [keep EXCEPT !.denied = f.content]
        ELSE IF f.content.k = "str" /\ HasMarker(d, f.content.v)
             THEN [exc |-> "none", text |-> f.content, denied |-> f.content,
                   direct |-> d = "dockerfile"]
        ELSE [keep EXCEPT !.denied = f.content]

FailMsg(d) ==
    CASE d = "terraform" -> "could not extract Terraform HCL from output"
      [] d = "sql" -> "could not extract any SQL model files from output"
      [] d = "dockerfile" -> "could not extract Dockerfile from output"
      [] d = "openapi" -> "could not extract valid JSON or YAML spec"
      [] d = "commit" -> "could not extract commit message from output"

\* extract_spec on a candidate that is raw_output itself, a JSON text:
\* json.loads returns the envelope (Step 3); for a stream the brace matching of
\* Step 5 returns its first line, unless a string of that line holds a brace
\* that is never closed
oa_raw_candidate(raw) ==
    IF WholeParse(raw).k = "obj" THEN Dict(OaEnvelope)
    ELSE IF /\ raw.k = "stream"
            /\ raw.lines[1].k = "obj"
            /\ \A t \in DocTexts(raw.lines[1]) : \A i \in 1..Len(t) : t[i] # OaBad
         THEN Dict(OaEnvelope)
    ELSE NoSpec

\* the loop  for candidate in [text_to_search, write_tool_content]
oa_cascade(raw, x, denied, yaml_ok) ==
    LET c1 == CASE x.k = "raw" -> oa_raw_candidate(raw)
                [] x.k = "str" /\ x.v # EmptyText -> oa_candidate(x.v, yaml_ok)
                [] OTHER -> NoSpec
        c2 == IF denied.k = "str" THEN oa_candidate(denied.v, yaml_ok) ELSE NoSpec
    IN  IF c1 # NoSpec THEN Found(c1)
        ELSE IF c2 # NoSpec THEN Found(c2)
        ELSE Failed(FailMsg("openapi"))

\* the steps after Step 1b: [exc, ret].  re.finditer, re.search and str.split
\* raise TypeError / AttributeError on a working text that is a list.
extract_cascade(d, raw, x, denied, yaml_ok) ==
    LET none == [artifact |-> JNull, error |-> JNull]
    IN  IF x.k = "list"
             THEN [exc |-> IF d = "sql" THEN "AttributeError" ELSE "TypeError",
                   ret |-> none]
        ELSE IF d = "openapi"
             THEN [exc |-> "none", ret |-> oa_cascade(raw, x, denied, yaml_ok)]
        ELSE IF x.k # "str" THEN [exc |-> "none", ret |-> Failed(FailMsg(d))]
        ELSE [exc |-> "none",
              ret |-> CASE d = "terraform" -> tf_cascade(x.v)
                        [] d = "sql" -> sql_cascade(x.v)
                        [] d = "dockerfile" -> dk_cascade(x.v)
                        [] d = "commit" -> cm_cascade(x.v)]

\* the guard at the top of the extractor
EmptyOutput(d, raw) ==
    IF d \in {"dockerfile", "openapi"} THEN RawFalsy(raw) ELSE RawStripFalsy(raw)

NoRet == [artifact |-> JNull, error |-> JNull]

-----------------------------------------------------------------------------
(* The extractor as one function: (artifact, error), or the exception *)

extract(d, raw, yaml_ok) ==
    IF EmptyOutput(d, raw) THEN [exc |-> "none", ret |-> Failed("empty output")]
    ELSE LET s0 == jsonl_step(raw, InitialText(raw))
             fb == fallback_step(d, raw, cli_json_step(raw, s0.text))
         IN  IF s0.exc # "none" THEN [exc |-> s0.exc, ret |-> NoRet]
             ELSE IF fb.exc # "none" THEN [exc |-> fb.exc, ret |-> NoRet]
             ELSE IF fb.direct
                  THEN [exc |-> "none", ret |-> Found(JStr(Strip(fb.text.v)))]
             ELSE extract_cascade(d, raw, fb.text, fb.denied, yaml_ok)

-----------------------------------------------------------------------------
(* Rule registries *)

PER_FILE_RULES ==
    <<"rule_1_keywords_upper", "rule_2_clause_per_line", "rule_3_table_aliases",
      "rule_4_column_aliases", "rule_5_no_select_star", "rule_6_comment_header",
      "rule_7_left_join_only", "rule_8_coalesce_unknown", "rule_9_row_number_dedup",
      "rule_10_one_cte_per_file">>

CROSS_FILE_RULES == <<"rule_11_jinja_ref", "rule_12_layer_naming">>

\* RULE_CHECKS (AUTOMATED_CHECKS for OpenAPI), in the order of the registry
RULE_CHECKS(d) ==
    CASE d = "terraform" ->
           <<"rule_1_naming", "rule_2_var_description", "rule_3_var_type",
             "rule_4_outputs", "rule_5_tags", "rule_6_lifecycle",
             "rule_7_var_separation", "rule_8_file_structure",
             "rule_9_no_hardcoded_ids", "rule_10_provider_pinned",
             "rule_11_backend", "rule_12_sensitive", "rule_13_data_sources",
             "rule_14_locals">>
      [] d = "sql" -> PER_FILE_RULES \o CROSS_FILE_RULES
      [] d = "dockerfile" ->
           <<"rule_1_tag", "rule_2_user", "rule_3_secrets", "rule_4_multistage",
             "rule_5_workdir", "rule_6_deps_first", "rule_7_combined_run",
             "rule_8_apt", "rule_9_healthcheck", "rule_10_expose", "rule_11_label",
             "rule_12_exec_form", "rule_13_no_add", "rule_14_dockerignore">>
      [] d = "openapi" ->
           <<"rule_1_plural_nouns", "rule_2_kebab_case", "rule_3_no_verbs",
             "rule_4_operation_id", "rule_5_description", "rule_6_camel_case",
             "rule_7_contact", "rule_8_rfc7807", "rule_9_cursor_pagination",
             "rule_10_rate_limit_headers", "rule_11_idempotency_key",
             "rule_12_examples", "rule_13_security_scheme",
             "rule_14_security_applied">>
      [] d = "commit" ->
           <<"rule_1_type", "rule_2_separator", "rule_3_imperative",
             "rule_4_no_period", "rule_5_lowercase", "rule_6_scope_vocab",
             "rule_7_gitmoji", "rule_8_body_why_what", "rule_9_body_word_count",
             "rule_10_trailer_format", "rule_11_signed_off_by",
             "rule_12_breaking_footer", "rule_13_ticket_ref",
             "rule_14_subject_length">>

EXCLUDED_RULES(d) ==
    CASE d = "terraform" -> {"rule_6_lifecycle"}
      [] d = "dockerfile" -> {"rule_14_dockerignore"}
      [] OTHER -> {}

OUTCOME_CHECKS(d) ==
    CASE d = "terraform" -> <<"outcome_resources_present", "outcome_resource_coverage">>
      [] d = "dockerfile" ->
           <<"outcome_correct_port", "outcome_target_names", "outcome_runtime_match">>
      [] d = "openapi" ->
           <<"outcome_paths_present", "outcome_schemas_present", "outcome_async_202">>
      [] OTHER -> <<>>

Range(s) == {s[i] : i \in 1..Len(s)}

RuleNames(d) == Range(RULE_CHECKS(d))

\* The task key a check reads before it looks at the artifact; the check
\* passes at once ("n/a", "auto-pass") when the key is missing or falsy.
\* "" for a check that does not read the task.
Gate(d, name) ==
    CASE d = "terraform" /\ name = "rule_12_sensitive" -> "requirements.sensitive_values"
      [] d = "terraform" /\ name = "rule_13_data_sources" -> "requirements.data_sources"
      [] d = "terraform" /\ name \in Range(OUTCOME_CHECKS(d)) -> "resources"
      [] d = "sql" /\ name = "rule_8_coalesce_unknown" -> "nullable_dimension_columns"
      [] d = "sql" /\ name = "rule_9_row_number_dedup" -> "requires_deduplication"
      [] d = "dockerfile" /\ name = "outcome_correct_port" -> "port"
      [] d = "dockerfile" /\ name = "outcome_target_names" -> "multi_target"
      [] d = "dockerfile" /\ name = "outcome_runtime_match" -> "runtime"
      [] d = "openapi" /\ name = "rule_9_cursor_pagination" -> "requires_pagination"
      [] d = "openapi" /\ name = "rule_13_security_scheme" -> "requires_auth"
      [] d = "openapi" /\ name = "rule_14_security_applied" -> "requires_auth"
      [] d = "openapi" /\ name = "outcome_paths_present" -> "expected_paths"
      [] d = "openapi" /\ name = "outcome_schemas_present" -> "expected_schemas"
      [] d = "openapi" /\ name = "outcome_async_202" -> "has_async_operations"
      [] d = "commit" /\ name = "rule_6_scope_vocab" -> "allowed_scopes"
      [] d = "commit" /\ name = "rule_7_gitmoji" -> "gitmoji_map"
      [] d = "commit" /\ name = "rule_9_body_word_count" -> "body_min_words"
      [] d = "commit" /\ name = "rule_11_signed_off_by" -> "signed_off_by"
      [] d = "commit" /\ name = "rule_12_breaking_footer" -> "breaking_change"
      [] d = "commit" /\ name = "rule_13_ticket_ref" -> "jira_project"
      [] OTHER -> ""

GateKeys(d) ==
    ({Gate(d, n) : n \in RuleNames(d) \cup Range(OUTCOME_CHECKS(d))} \ {""})
    \cup (IF d = "sql" THEN {"requires_left_join"} ELSE {})

\* task metadata: a mapping, given by the set of its keys with a truthy value
TaskDict(keys) == [k |-> "dict", keys |-> keys]

\* task.get(key) is truthy
Truthy(task, key) == task.k = "dict" /\ key \in task.keys

\* load_task: the metadata of the first file of test-data whose task_id
\* matches; {} when there is none, None in the OpenAPI evaluator
load_task(d, task_id, store) ==
    IF \E f \in store : f.task_id = task_id
    THEN TaskDict((CHOOSE f \in store : f.task_id = task_id).keys)
    ELSE IF d = "openapi" THEN JNull ELSE TaskDict({})

\* a check that empties the task metadata it was given
check_fn_writing(d, name, feats, task) ==
    IF task.k = "null" /\ name \in Range(OUTCOME_CHECKS(d))
    THEN [exc |-> "AttributeError", passed |-> FALSE, task |-> task]
    ELSE IF Gate(d, name) # "" /\ ~Truthy(task, Gate(d, name))
         THEN [exc |-> "none", passed |-> TRUE, task |-> TaskDict({})]
    ELSE [exc |-> "none", passed |-> name \in feats, task |-> TaskDict({})]

\* One rule or outcome check: [exc, passed, task].  feats is what the check
\* finds in the artifact: the names of the checks the artifact satisfies.
\* A check calls task.get(...): AttributeError when task is None, which the
\* rules 9, 13 and 14 of OpenAPI guard against and its outcome checks do not.
\* No check assigns to the task or to the artifact.
check_fn(d, name, feats, task) ==
    IF task.k = "null" /\ name \in Range(OUTCOME_CHECKS(d))
    THEN [exc |-> "AttributeError", passed |-> FALSE, task |-> task]
    ELSE IF Gate(d, name) # "" /\ ~Truthy(task, Gate(d, name))
         THEN [exc |-> "none", passed |-> TRUE, task |-> task]
    ELSE [exc |-> "none", passed |-> name \in feats, task |-> task]

-----------------------------------------------------------------------------
(* Scores: auto_score is an int, or for SQL a float that is a sum of pass   *)
(* rates; both are kept as reduced fractions [num, den].                    *)

RECURSIVE Gcd(_, _)
Gcd(a, b) == IF b = 0 THEN a ELSE Gcd(b, a % b)

Frac(n, d) == LET g == IF n = 0 THEN d ELSE Gcd(n, d) IN [num |-> n \div g, den |-> d \div g]

FracAdd(a, b) == Frac(a.num * b.den + b.num * a.den, a.den * b.den)

FracLeq(a, b) == a.num * b.den <= b.num * a.den

\* round(x, 2): the nearest multiple of 1/100
Round2(a) == Frac((200 * a.num + a.den) \div (2 * a.den), 100)

\* round(rate, 4): the nearest multiple of 1/10000
Round4(a) == Frac((20000 * a.num + a.den) \div (2 * a.den), 10000)

Zero == Frac(0, 1)
One == Frac(1, 1)

\* what the row keeps of a rule's score: row[f"{rule_name}_rate"] =
\* round(rate, 4) for the per-file rules of SQL
RowScore(d, name, score) ==
    IF d = "sql" /\ name \in Range(PER_FILE_RULES) THEN Round4(score) ELSE score

-----------------------------------------------------------------------------
(* What the rules see in an artifact *)

\* an artifact breaks at most this many checks, or all of them
MaxFailing == 1

Features(d) ==
    RuleNames(d) \cup Range(OUTCOME_CHECKS(d)) \cup {"structure"}
    \cup (IF d = "sql" THEN {"has_join"} ELSE {})

MeritSets(d) ==
    {Features(d) \ X : X \in {Y \in SUBSET Features(d) : Cardinality(Y) <= MaxFailing}}
    \cup {{}}

\* for SQL one set per model file: the second model satisfies all or nothing
Merits(d) ==
    IF d = "sql"
    THEN {<<m, n>> : m \in MeritSets(d), n \in {Features(d), {}}}
    ELSE MeritSets(d)

-----------------------------------------------------------------------------
(* evaluate_run: the rule loop of SQL (per-file pass rates) *)

\* model_name.startswith("stg_"); no model name of the alphabet starts with
\* fct_, dim_ or int_
IsStaging(model_name) == model_name \in {"stg_a", "stg_b"}

\* the models a context-dependent rule is applied to
Applicable(name, model_name, feats) ==
    CASE name = "rule_8_coalesce_unknown" -> ~IsStaging(model_name)
      [] name = "rule_9_row_number_dedup" -> ~IsStaging(model_name)
      [] name = "rule_7_left_join_only" -> "has_join" \in feats
      [] OTHER -> TRUE

\* the task key that turns "no applicable model" into a rate of 0.0
Override(name) ==
    CASE name = "rule_7_left_join_only" -> "requires_left_join"
      [] name = "rule_8_coalesce_unknown" -> "nullable_dimension_columns"
      [] name = "rule_9_row_number_dedup" -> "requires_deduplication"
      [] OTHER -> ""

\* a pass rate over all the models, the skipped ones counted as failures
per_file_rate_all(name, models, merits, task) ==
    LET applicable == {i \in 1..Len(models) :
                          Applicable(name, models[i].name, merits[i])}
        passes == {i \in applicable : check_fn("sql", name, merits[i], task).passed}
    IN  Frac(Cardinality(passes), Len(models))

per_file_rate(name, models, merits, task) ==
    LET applicable == {i \in 1..Len(models) :
                          Applicable(name, models[i].name, merits[i])}
        passes == {i \in applicable : check_fn("sql", name, merits[i], task).passed}
    IN  IF applicable = {}
        THEN IF Truthy(task, Override(name)) THEN Zero ELSE One
        ELSE Frac(Cardinality(passes), Cardinality(applicable))

\* One pass of the rule loop for the rule name: [exc, passed, score, task]
invoke_rule(d, name, artifact, merits, task) ==
    IF d # "sql"
    THEN LET c == check_fn(d, name, merits, task)
         IN  [exc |-> c.exc, passed |-> c.passed,
              score |-> IF c.passed THEN One ELSE Zero, task |-> c.task]
    ELSE IF name \in Range(PER_FILE_RULES)
         THEN LET rate == per_file_rate(name, artifact.v, merits, task)
              IN  [exc |-> "none", passed |-> rate = One, score |-> rate,
                   task |-> task]
    ELSE LET c == check_fn(d, name,
                           {f \in Features(d) :
                               \A i \in 1..Len(artifact.v) : f \in merits[i]}, task)
         IN  [exc |-> c.exc, passed |-> c.passed,
              score |-> IF c.passed THEN One ELSE Zero, task |-> c.task]

\* the loop over OUTCOME_CHECKS: [exc, outcome_score]
RECURSIVE OutcomeLoop(_, _, _, _, _)
OutcomeLoop(d, names, feats, task, acc) ==
    IF names = <<>> \/ acc.exc # "none" THEN acc
    ELSE LET c == check_fn(d, Head(names), feats, task)
         IN  OutcomeLoop(d, Tail(names), feats, task,
                         [exc |-> c.exc,
                          outcome_score |-> acc.outcome_score
                                            + (IF c.passed THEN 1 ELSE 0)])

\* extract_token_usage raises AttributeError when the first step_finish
\* event of a stream has a part that is not a mapping
RECURSIVE TokenLoop(_)
TokenLoop(ls) ==
    IF ls = <<>> THEN "none"
    ELSE IF Head(ls).k = "obj" /\ Head(ls).type = "step_finish"
         THEN IF Head(ls).part.k = "nonmap" THEN "AttributeError" ELSE "none"
    ELSE TokenLoop(Tail(ls))

extract_token_usage(raw) ==
    IF ~RawFalsy(raw) /\ LooksJsonl(raw) THEN TokenLoop(RawLines(raw)) ELSE "none"

-----------------------------------------------------------------------------
(* evaluate_run: one run file to one row of the CSV *)

\* an output that no extractor accepts
FailText(d) ==
    CASE d = "terraform" -> <<TfProse>>
      [] d = "sql" -> <<SqlProse>>
      [] d = "dockerfile" -> <<DkProse>>
      [] d = "openapi" -> <<OaProse>>
      [] d = "commit" -> <<CmBody>>

\* an output that holds one artifact and nothing else
GoodText(d) ==
    CASE d = "terraform" -> <<TfRes>>
      [] d = "sql" -> <<"'''sql", SqlSel, "'''">>
      [] d = "dockerfile" -> <<DkFrom, DkCmd>>
      [] d = "openapi" -> <<OaJson>>
      [] d = "commit" -> <<CmSubj>>

\* a Claude CLI envelope whose result is null
NullResult == RawSingle(Obj("absent", FALSE, NoPart, JNull, NoDenials), FALSE)

\* raw_output of the run files
RunRaws(d) ==
    {RawEmpty, RawPlain(FailText(d)), RawPlain(GoodText(d)), NullResult}
    \cup {RawPlain(p) : p \in Pool(d)}
    \cup (IF d = "sql"
          THEN {RawPlain(<<"'''sql", SqlSel, "'''", SqlNameA, "'''sql", SqlSel, "'''">>)}
          ELSE {})

\* the content of a run file: not JSON, JSON that is not an object, or an
\* object with the keys condition, task and raw_output; merits says which
\* checks the artifact in raw_output satisfies
RunRecord(condition, task_id, raw, m) ==
    [kind |-> "run", condition |-> condition, task |-> task_id,
     raw_output |-> raw, merits |-> m]

NotJson == [kind |-> "notjson"]
NotObject == [kind |-> "nondict"]

Baseline == JStr(<<"baseline">>)

RunFiles(d) ==
    {NotJson, NotObject}
    \cup {RunRecord(Baseline, "task-1", raw, m) : raw \in RunRaws(d), m \in Merits(d)}

\* the test-data directory: no task file, a file of another task, a file
\* of the task without optional keys, a file with every optional key
TaskStores(d) ==
    {{}, {[task_id |-> "task-2", keys |-> GateKeys(d)]},
     {[task_id |-> "task-1", keys |-> {}]},
     {[task_id |-> "task-1", keys |-> GateKeys(d)]}}

NoRow == [k |-> "none"]

NoVerdict == [done |-> FALSE, passed |-> FALSE, score |-> Zero]

\* row = {"run_id": ..., "condition": ..., "task": ...}
NewRow(d, file) ==
    [k |-> "row", condition |-> file.condition, task |-> file.task,
     extraction_ok |-> FALSE, extraction_error |-> "",
     structure_valid |-> FALSE,
     verdicts |-> [n \in RuleNames(d) |-> NoVerdict],
     auto_score |-> Zero, scored_rules |-> 0, outcome_score |-> 0]

\* row["extraction_ok"], row["extraction_error"]
WithExtraction(r, e) ==
    [r EXCEPT !.extraction_ok = e.artifact.k # "null",
              !.extraction_error = IF e.error.k = "null" THEN "" ELSE e.error.v[1]]

\* a failure branch that reports the number of scored rules
failure_row_counted(d, r) ==
    [r EXCEPT !.structure_valid = FALSE,
              !.verdicts = [n \in RuleNames(d) |->
                               [done |-> TRUE, passed |-> FALSE, score |-> Zero]],
              !.auto_score = Zero,
              !.scored_rules = Len(RULE_CHECKS(d)) - Cardinality(EXCLUDED_RULES(d)),
              !.outcome_score = 0]

\* the branch  if artifact is None: every verdict False, the scores zero
failure_row(d, r) ==
    [r EXCEPT !.structure_valid = FALSE,
              !.verdicts = [n \in RuleNames(d) |->
                               [done |-> TRUE, passed |-> FALSE, score |-> Zero]],
              !.auto_score = Zero,
              !.scored_rules = 0,
              !.outcome_score = 0]

\* validate_structure; the SQL evaluator has none
WithStructure(d, r, m) ==
    IF d = "sql" THEN r ELSE [r EXCEPT !.structure_valid = "structure" \in m]

\* the locals of the rule loop: auto_score = 0, scored_rules = 0
NoAcc == [auto_score |-> Zero, scored_rules |-> 0]

\* a rule loop that counts the excluded rules too
rule_step_all(d, name, art, m, st) ==
    LET r == invoke_rule(d, name, art, m, st.task)
    IN  IF r.exc # "none" THEN [st EXCEPT !.exc = r.exc]
        ELSE [exc |-> "none",
              task |-> r.task,
              acc |-> [auto_score |-> FracAdd(st.acc.auto_score, r.score),
                       scored_rules |-> st.acc.scored_rules + 1],
              row |-> [st.row EXCEPT !.verdicts[name] =
                          [done |-> TRUE, passed |-> r.passed,
                           score |-> RowScore(d, name, r.score)]]]

\* One iteration of the rule loop for the rule name, on the loop state
\* st = [exc, task, acc, row]
rule_step(d, name, art, m, st) ==
    LET r == invoke_rule(d, name, art, m, st.task)
    IN  IF r.exc # "none" THEN [st EXCEPT !.exc = r.exc]
        ELSE [exc |-> "none",
              task |-> r.task,
              acc |-> IF name \notin EXCLUDED_RULES(d)
                      THEN [auto_score |-> FracAdd(st.acc.auto_score, r.score),
                            scored_rules |-> st.acc.scored_rules + 1]
                      ELSE st.acc,
              row |-> [st.row EXCEPT !.verdicts[name] =
                          [done |-> TRUE, passed |-> r.passed,
                           score |-> RowScore(d, name, r.score)]]]

\* after the rule loop: the scores, then the loop over OUTCOME_CHECKS
finish_row(d, m, st) ==
    LET o == OutcomeLoop(d, OUTCOME_CHECKS(d), m, st.task,
                         [exc |-> "none", outcome_score |-> 0])
    IN  IF o.exc # "none" THEN [st EXCEPT !.exc = o.exc]
        ELSE [st EXCEPT
                !.row = [st.row EXCEPT
                           !.auto_score = IF d = "sql"
                                          THEN Round2(st.acc.auto_score)
                                          ELSE st.acc.auto_score,
                           !.scored_rules = st.acc.scored_rules,
                           !.outcome_score = o.outcome_score]]

\* for rule_name, check_fn in RULE_CHECKS
RECURSIVE RuleLoop(_, _, _, _, _)
RuleLoop(d, names, art, m, st) ==
    IF names = <<>> \/ st.exc # "none" THEN st
    ELSE LET after == {rule_step(d, Head(names), art, m, st)}
         IN  CHOOSE out \in {RuleLoop(d, Tail(names), art, m, s) : s \in after} : TRUE

\* evaluate_run from the point where the extractor has returned or raised
\* e = [exc, ret]
run_after_extract(d, file, store, e) ==
    LET r2 == WithExtraction(NewRow(d, file), e.ret)
        st == finish_row(d, file.merits,
                 RuleLoop(d, RULE_CHECKS(d), e.ret.artifact, file.merits,
                          [exc |-> "none",
                           task |-> load_task(d, file.task, store),
                           acc |-> NoAcc,
                           row |-> WithStructure(d, r2, file.merits)]))
    IN  IF e.exc # "none" THEN [exc |-> e.exc, row |-> NoRow]
        ELSE IF e.ret.artifact.k = "null"
             THEN [exc |-> "none", row |-> failure_row(d, r2)]
        ELSE IF st.exc # "none" THEN [exc |-> st.exc, row |-> NoRow]
        ELSE [exc |-> "none", row |-> st.row]

\* evaluate_run as main calls it: [exc, row]
evaluate_run(d, file, store, yaml_ok) ==
    IF file.kind = "notjson" THEN [exc |-> "JSONDecodeError", row |-> NoRow]
    ELSE IF file.kind = "nondict" THEN [exc |-> "AttributeError", row |-> NoRow]
    ELSE IF extract_token_usage(file.raw_output) # "none"
         THEN [exc |-> extract_token_usage(file.raw_output), row |-> NoRow]
    ELSE CHOOSE out \in {run_after_extract(d, file, store, e) :
                            e \in {extract(d, file.raw_output, yaml_ok)}} : TRUE

\* failure rate as the figures compute it from a row:
\* np.where(scored_rules > 0, 1 - auto_score / scored_rules, 1.0)
failure_rate(r) ==
    IF r.scored_rules > 0
    THEN Frac(r.scored_rules * r.auto_score.den - r.auto_score.num,
              r.scored_rules * r.auto_score.den)
    ELSE One

-----------------------------------------------------------------------------
(* main: the batch of run files *)

\* a batch has at most this many run files
MaxFiles == 2

\* values of the key "condition" in a run file; null is JSON null
Conditions == {Baseline, JStr(<<"skill">>), JNull}

AllMerits(d) == IF d = "sql" THEN <<Features(d), Features(d)>> ELSE Features(d)

BatchFiles(d) ==
    {NotJson, NotObject}
    \cup {RunRecord(c, "task-1", raw, AllMerits(d)) :
             c \in Conditions, raw \in {RawEmpty, RawPlain(GoodText(d)), NullResult}}

\* the dict conditions of the summary: its keys
ConditionKeys(rs) == {rs[i].row.condition : i \in 1..Len(rs)}

\* sorted(conditions): '<' between None and str raises TypeError
SortRaises(conds) == \E a, b \in conds : a.k # b.k

-----------------------------------------------------------------------------
(* The chart evaluator: the two rules whose detail lists what a set holds *)

\* a chart mentions at most this many fonts and this many colors
MaxStrings == 2

FontTokens == {"georgia", "times new roman", "arial"}
ColorTokens == {"#ff0000", "#00ff00", "#336699", "#d92626", "#ffffff"}

Charts ==
    {[fonts |-> f, colors |-> c] :
        f \in {x \in SUBSET FontTokens : Cardinality(x) <= MaxStrings},
        c \in {x \in SUBSET ColorTokens : Cardinality(x) <= MaxStrings}}

\* the orders in which a set can be iterated
Perms(S) ==
    {s \in [1..Cardinality(S) -> S] : \A i, j \in 1..Cardinality(S) : s[i] = s[j] => i = j}

is_sans_serif(font_str) == font_str = "arial"
is_neon_or_primary(hex_color) == hex_color \in {"#ff0000", "#00ff00"}
is_muted(hex_color) == hex_color \in {"#336699", "#ffffff"}

\* rule_01 drops the colors with l > 0.9 or l < 0.05 and the grid colors
DataColors(colors) == colors \ {"#ffffff"}

\* rule_01_muted_palette; data_iter is data_colors in iteration order
rule_01_muted_palette(data_iter) ==
    LET Bad(c) == is_neon_or_primary(c)
        NonMuted(c) == ~is_muted(c)
        bad == SelectSeq(data_iter, Bad)
        non_muted == SelectSeq(data_iter, NonMuted)
    IN  IF data_iter = <<>>
        THEN [verdict |-> "absent", detail |-> <<"no data colors found">>]
        ELSE IF bad # <<>>
             THEN [verdict |-> "fail", detail |-> <<"neon/primary colors: ">> \o bad]
        ELSE IF non_muted # <<>>
             THEN [verdict |-> "fail", detail |-> <<"saturated colors: ">> \o non_muted]
        ELSE [verdict |-> "pass",
              detail |-> <<ToString(Len(data_iter)) \o " muted colors">>]

\* rule_07_sans_serif; font_iter is fonts in iteration order
rule_07_sans_serif(font_iter) ==
    LET Serif(f) == ~is_sans_serif(f)
        bad == SelectSeq(font_iter, Serif)
    IN  IF font_iter = <<>>
        THEN [verdict |-> "absent", detail |-> <<"no font specified">>]
        ELSE IF bad # <<>>
             THEN [verdict |-> "fail", detail |-> <<"serif fonts: ">> \o bad]
        ELSE [verdict |-> "pass",
              detail |-> <<"sans-serif: ">> \o SubSeq(font_iter, 1, Min(3, Len(font_iter)))]

-----------------------------------------------------------------------------
(* Statistics helpers: cliffs_delta, magnitude and mwu of the analysis      *)
(* scripts.  A sample is a sequence of integers, a delta the reduced        *)
(* fraction [num, den] of the float the script computes.                    *)

\* the scripts that define cliffs_delta
StatScripts == {"analyze_all", "compute_paper_stats", "analyze",
                "recompute_stats", "score_gemini", "compute_stats"}

\* the scripts whose cliffs_delta starts with a test for an empty sample
Guarded == {"analyze_all", "compute_paper_stats", "analyze", "score_gemini"}

\* the scripts that write the lowest band as "negl."
Abbreviating == {"recompute_stats", "score_gemini", "compute_stats"}

\* the scripts that define mwu
MwuScripts == {"score_gemini", "compute_stats"}

\* the pairs with xi >= yi
more_or_equal(x, y) ==
    Cardinality({p \in (1..Len(x)) \X (1..Len(y)) : x[p[1]] >= y[p[2]]})

\* the pairs with xi > yi / with xi < yi
more(x, y) ==
    Cardinality({p \in (1..Len(x)) \X (1..Len(y)) : x[p[1]] > y[p[2]]})

less(x, y) ==
    Cardinality({p \in (1..Len(x)) \X (1..Len(y)) : x[p[1]] < y[p[2]]})

Abs(n) == IF n < 0 THEN -n ELSE n

\* abs(d) < t for the decimal t of the given number of thousandths
AbsBelow(d, thousandths) == Abs(d.num) * 1000 < thousandths * d.den

NoLabel == "<none>"

\* a chain without the band "medium"
magnitude_three_bands(impl, d) ==
    IF AbsBelow(d, 147)
         THEN IF impl \in Abbreviating THEN "negl." ELSE "negligible"
    ELSE IF AbsBelow(d, 330) THEN "small"
    ELSE "large"

\* the if/elif chain on abs_d
magnitude(impl, d) ==
    IF AbsBelow(d, 147)
         THEN IF impl \in Abbreviating THEN "negl." ELSE "negligible"
    ELSE IF AbsBelow(d, 330) THEN "small"
    ELSE IF AbsBelow(d, 474) THEN "medium"
    ELSE "large"

StatReturn(delta, mag) == [exc |-> "none", delta |-> delta, mag |-> mag]
StatRaise(e) == [exc |-> e, delta |-> Zero, mag |-> NoLabel]
NoStat == [exc |-> "none", delta |-> Zero, mag |-> NoLabel]

\* cliffs_delta(x, y) of the script impl; the one of recompute_stats returns
\* the delta alone
cliffs_delta(impl, x, y) ==
    LET n == Len(x) * Len(y)
    IN  IF n = 0
        THEN IF impl \in Guarded
             THEN StatReturn(Zero, IF impl = "compute_paper_stats"
                                   THEN "negligible" ELSE "undefined")
             ELSE StatRaise("ZeroDivisionError")
        ELSE LET delta == Frac(more(x, y) - less(x, y), n)
             IN  StatReturn(delta, IF impl = "recompute_stats" THEN NoLabel
                                   ELSE magnitude(impl, delta))

NaN == [num |-> 0, den |-> 0]

\* the U of stats.mannwhitneyu(x, y): the pairs with xi > yi, a tie counts 1/2
UStatistic(x, y) == Frac(Len(x) * Len(y) + more(x, y) - less(x, y), 2)

\* what mwu(x, y) of the script impl can do.  stats.mannwhitneyu on an empty
\* sample raises ValueError in some releases of SciPy and returns NaN in
\* others.
mwu(impl, x, y) ==
    IF impl = "score_gemini" /\ (Len(x) < 2 \/ Len(y) < 2)
         THEN {StatReturn(NaN, NoLabel)}
    ELSE IF Len(x) = 0 \/ Len(y) = 0
         THEN {StatRaise("ValueError"), StatReturn(NaN, NoLabel)}
    ELSE {StatReturn(UStatistic(x, y), NoLabel)}

-----------------------------------------------------------------------------
(* Dockerfile rule 1: check_rule_1_tag.  A Dockerfile is the sequence of    *)
(* its instructions; of a FROM instruction the model keeps the name and the *)
(* tag of its image part (tag "" when the image part holds no colon) and    *)
(* the word after AS (alias "" when there is no AS clause).                 *)

FromInstr(name, tag, alias) ==
    [instr |-> "FROM", name |-> name, tag |-> tag, alias |-> alias]

RunInstr == [instr |-> "RUN", name |-> "", tag |-> "", alias |-> ""]

\* str.lower() on the words of the alphabet
Lower(s) == IF s = "Builder" THEN "builder" ELSE s

\* the words after AS of all FROM instructions, in lower case
stage_aliases(from_instructions) ==
    {Lower(from_instructions[i].alias) :
        i \in {j \in 1..Len(from_instructions) : from_instructions[j].alias # ""}}

\* the body of the second loop: the instruction is appended to bad
BadFrom(f, aliases) ==
    /\ ~(f.tag = "" /\ Lower(f.name) = "scratch")
    /\ ~(f.tag = "" /\ Lower(f.name) \in aliases)
    /\ f.tag = "" \/ Lower(f.tag) = "latest"

check_rule_1_tag(dockerfile) ==
    LET IsFrom(i) == i.instr = "FROM"
        from_instructions == SelectSeq(dockerfile, IsFrom)
        IsBad(f) == BadFrom(f, stage_aliases(from_instructions))
        bad == SelectSeq(from_instructions, IsBad)
    IN  IF from_instructions = <<>>
             THEN [passed |-> FALSE, detail |-> "no FROM found", bad |-> <<>>]
        ELSE IF bad # <<>>
             THEN [passed |-> FALSE, detail |-> "unversioned FROM", bad |-> bad]
        ELSE [passed |-> TRUE, detail |-> "ok", bad |-> <<>>]

NoRule1 == [passed |-> FALSE, detail |-> "", bad |-> <<>>]

-----------------------------------------------------------------------------
(* State of evaluate_run, of main and of the chart evaluator *)

VARIABLES
    result_file,     \* the content of the run file evaluate_run reads
    task_store,      \* the task files of test-data: records [task_id, keys]
    run_pc,          \* position inside evaluate_run
    task,            \* the local task: what load_task returned
    artifact,        \* the extracted artifact, null when extraction failed
    merits,          \* the checks the artifact satisfies
    todo,            \* the rules the rule loop has not yet invoked
    acc,             \* the locals auto_score and scored_rules of the loop
    row,             \* the row being built
    run_exc          \* the exception that left evaluate_run, "none" if none

VARIABLES
    files,           \* the run files of the batch, in sorted order
    next_file,       \* index of the file the loop of main is at
    rows,            \* the list rows of main
    log,             \* the lines "ERROR processing <file>: <e>" printed
    csv,             \* the writes of the output CSV, one entry per write
    exit_code,       \* exit status of the process, -1 while it runs
    main_pc          \* position inside main

VARIABLES
    chart,           \* the chart under evaluation: its fonts and colors
    set_order,       \* per process: the order in which its sets iterate
    results          \* per process: the verdicts of its evaluations

VARIABLES
    stat_impl,       \* the script whose statistics helper is called
    stat_op,         \* the helper: "cliffs_delta" or "mwu"
    stat_x,          \* the first sample
    stat_y,          \* the second sample
    stat_out,        \* what the helper returned or raised
    stat_pc          \* position of the caller

VARIABLES
    rule1_file,      \* the Dockerfile check_rule_1_tag is called with
    rule1_ret,       \* what it returned
    rule1_pc         \* position of the caller

VARIABLES
    argv,            \* sys.argv[1:]: of an argument its file and whether its
                     \* name ends with ".json"
    results_dir      \* RESULTS_DIR: whether it exists, and its *.json files

VARIABLES
    callee,          \* the function under test that is called on its own
    call_arg,        \* its argument
    call_ret,        \* what it returned
    call_pc          \* position of the caller: "call", then "done"

run_vars == <<result_file, task_store, run_pc, task, artifact, merits, todo,
              acc, row, run_exc>>

main_vars == <<files, next_file, rows, log, csv, exit_code, main_pc>>

chart_vars == <<chart, set_order, results>>

stats_vars == <<stat_impl, stat_op, stat_x, stat_y, stat_out, stat_pc>>

rule1_vars == <<rule1_file, rule1_ret, rule1_pc>>

args_vars == <<argv, results_dir>>

call_vars == <<callee, call_arg, call_ret, call_pc>>

vars == <<extract_vars, run_vars, main_vars, chart_vars, stats_vars, rule1_vars,
          args_vars, call_vars>>

\* the processes that evaluate the same chart
Procs == {"A", "B"}

\* a process evaluates the chart at most this many times
MaxEvals == 2

NotStarted == [started |-> FALSE, fonts |-> <<>>, colors |-> <<>>]

ExtractIdle ==
    /\ raw_output = RawEmpty
    /\ pc = "idle"
    /\ text_to_search = JNull
    /\ denied_content = JNull
    /\ ret = NoRet
    /\ exc = "none"

RunIdle ==
    /\ result_file = NotJson
    /\ run_pc = "idle"
    /\ task = JNull
    /\ artifact = JNull
    /\ merits = {}
    /\ todo = <<>>
    /\ acc = NoAcc
    /\ row = NoRow
    /\ run_exc = "none"

MainIdle ==
    /\ files = <<>>
    /\ next_file = 1
    /\ rows = <<>>
    /\ log = <<>>
    /\ csv = <<>>
    /\ exit_code = -1
    /\ main_pc = "idle"

ChartIdle ==
    /\ chart = [fonts |-> {}, colors |-> {}]
    /\ set_order = [p \in Procs |-> NotStarted]
    /\ results = [p \in Procs |-> <<>>]

StatsIdle ==
    /\ stat_impl = "none"
    /\ stat_op = "none"
    /\ stat_x = <<>>
    /\ stat_y = <<>>
    /\ stat_out = NoStat
    /\ stat_pc = "idle"

Rule1Idle ==
    /\ rule1_file = <<>>
    /\ rule1_ret = NoRule1
    /\ rule1_pc = "idle"

\* main from the point where files is set
ArgsIdle ==
    /\ argv = <<>>
    /\ results_dir = [exists |-> TRUE, files |-> <<>>]

CallIdle ==
    /\ callee = "none"
    /\ call_arg = <<>>
    /\ call_ret = <<>>
    /\ call_pc = "idle"

-----------------------------------------------------------------------------
(* The extractor, step by step *)

ExtractInit ==
    /\ domain \in Domains
    /\ raw_output \in RawOutputs(domain)
    /\ has_yaml \in (IF domain = "openapi" THEN BOOLEAN ELSE {FALSE})
    /\ pc = "start"
    /\ text_to_search = JNull
    /\ denied_content = JNull
    /\ ret = NoRet
    /\ exc = "none"

CheckEmpty ==
    /\ pc = "start"
    /\ IF EmptyOutput(domain, raw_output)
       THEN /\ ret' = Failed("empty output")
            /\ pc' = "done"
            /\ UNCHANGED text_to_search
       ELSE /\ text_to_search' = InitialText(raw_output)
            /\ pc' = "step0"
            /\ UNCHANGED ret
    /\ UNCHANGED <<domain, raw_output, has_yaml, denied_content, exc>>
    /\ UNCHANGED <<run_vars, main_vars, chart_vars, stats_vars, rule1_vars, args_vars, call_vars>>

Step0Jsonl ==
    /\ pc = "step0"
    /\ LET r == jsonl_step(raw_output, text_to_search)
       IN  /\ exc' = r.exc
           /\ text_to_search' = r.text
           /\ pc' = IF r.exc = "none" THEN "step1" ELSE "raised"
    /\ UNCHANGED <<domain, raw_output, has_yaml, denied_content, ret>>
    /\ UNCHANGED <<run_vars, main_vars, chart_vars, stats_vars, rule1_vars, args_vars, call_vars>>

Step1CliJson ==
    /\ pc = "step1"
    /\ text_to_search' = cli_json_step(raw_output, text_to_search)
    /\ pc' = "step1b"
    /\ UNCHANGED <<domain, raw_output, has_yaml, denied_content, ret, exc>>
    /\ UNCHANGED <<run_vars, main_vars, chart_vars, stats_vars, rule1_vars, args_vars, call_vars>>

Step1bFallback ==
    /\ pc = "step1b"
    /\ LET r == fallback_step(domain, raw_output, text_to_search)
       IN  /\ exc' = r.exc
           /\ text_to_search' = r.text
           /\ denied_content' = r.denied
           /\ ret' = IF r.direct THEN Found(JStr(Strip(r.text.v))) ELSE ret
           /\ pc' = IF r.exc # "none" THEN "raised"
                    ELSE IF r.direct THEN "done" ELSE "cascade"
    /\ UNCHANGED <<domain, raw_output, has_yaml>>
    /\ UNCHANGED <<run_vars, main_vars, chart_vars, stats_vars, rule1_vars, args_vars, call_vars>>

Step2Cascade ==
    /\ pc = "cascade"
    /\ LET r == extract_cascade(domain, raw_output, text_to_search,
                                denied_content, has_yaml)
       IN  /\ exc' = r.exc
           /\ ret' = r.ret
           /\ pc' = IF r.exc = "none" THEN "done" ELSE "raised"
    /\ UNCHANGED <<domain, raw_output, has_yaml, text_to_search, denied_content>>
    /\ UNCHANGED <<run_vars, main_vars, chart_vars, stats_vars, rule1_vars, args_vars, call_vars>>

ExtractNext ==
    \/ CheckEmpty
    \/ Step0Jsonl
    \/ Step1CliJson
    \/ Step1bFallback
    \/ Step2Cascade

-----------------------------------------------------------------------------
(* evaluate_run, step by step *)

run_idle == <<raw_output, pc, text_to_search, denied_content, ret, exc,
              main_vars, chart_vars, stats_vars, rule1_vars, args_vars, call_vars>>

RunInit ==
    /\ domain \in Domains
    /\ has_yaml \in (IF domain = "openapi" THEN BOOLEAN ELSE {FALSE})
    /\ result_file \in RunFiles(domain)
    /\ task_store \in TaskStores(domain)
    /\ run_pc = "read"
    /\ task = JNull
    /\ artifact = JNull
    /\ merits = {}
    /\ todo = <<>>
    /\ acc = NoAcc
    /\ row = NoRow
    /\ run_exc = "none"

Raise(e) ==
    /\ run_exc' = e
    /\ run_pc' = "raised"

\* json.load(f) and the first row = {...}: result.get on something that is
\* not an object raises AttributeError
ReadResult ==
    /\ run_pc = "read"
    /\ IF result_file.kind = "notjson"
       THEN Raise("JSONDecodeError") /\ UNCHANGED row
       ELSE IF result_file.kind = "nondict"
            THEN Raise("AttributeError") /\ UNCHANGED row
       ELSE /\ row' = NewRow(domain, result_file)
            /\ run_pc' = "load_task"
            /\ UNCHANGED run_exc
    /\ UNCHANGED <<domain, has_yaml, result_file, task_store, task, artifact,
                   merits, todo, acc>>
    /\ UNCHANGED run_idle

LoadTask ==
    /\ run_pc = "load_task"
    /\ task' = load_task(domain, row.task, task_store)
    /\ run_pc' = "extract"
    /\ UNCHANGED <<domain, has_yaml, result_file, task_store, artifact, merits,
                   todo, acc, row, run_exc>>
    /\ UNCHANGED run_idle

\* row.update(extract_token_usage(raw_output)) and the extractor
ExtractRun ==
    /\ run_pc = "extract"
    /\ LET tok == extract_token_usage(result_file.raw_output)
           e == extract(domain, result_file.raw_output, has_yaml)
       IN  IF tok # "none"
           THEN Raise(tok) /\ UNCHANGED <<artifact, merits, row>>
           ELSE IF e.exc # "none"
                THEN Raise(e.exc) /\ UNCHANGED <<artifact, merits, row>>
           ELSE /\ artifact' = e.ret.artifact
                /\ merits' = IF e.ret.artifact.k = "null" THEN {}
                             ELSE result_file.merits
                /\ row' = WithExtraction(row, e.ret)
                /\ run_pc' = IF e.ret.artifact.k = "null" THEN "failure"
                             ELSE "structure"
                /\ UNCHANGED run_exc
    /\ UNCHANGED <<domain, has_yaml, result_file, task_store, task, todo, acc>>
    /\ UNCHANGED run_idle

FailureRow ==
    /\ run_pc = "failure"
    /\ row' = failure_row(domain, row)
    /\ run_pc' = "done"
    /\ UNCHANGED <<domain, has_yaml, result_file, task_store, task, artifact,
                   merits, todo, acc, run_exc>>
    /\ UNCHANGED run_idle

\* validate_structure, then auto_score = 0 and scored_rules = 0 before the
\* rule loop
StructureStep ==
    /\ run_pc = "structure"
    /\ row' = WithStructure(domain, row, merits)
    /\ todo' = RULE_CHECKS(domain)
    /\ acc' = NoAcc
    /\ run_pc' = "rules"
    /\ UNCHANGED <<domain, has_yaml, result_file, task_store, task, artifact,
                   merits, run_exc>>
    /\ UNCHANGED run_idle

\* One iteration of the rule loop, for the rule at position i of todo
ApplyRule(i) ==
    LET st == rule_step(domain, todo[i], artifact, merits,
                        [exc |-> "none", task |-> task, acc |-> acc, row |-> row])
    IN  /\ todo' = SubSeq(todo, 1, i - 1) \o SubSeq(todo, i + 1, Len(todo))
        /\ task' = st.task
        /\ acc' = st.acc
        /\ row' = st.row
        /\ IF st.exc # "none" THEN Raise(st.exc) ELSE UNCHANGED <<run_pc, run_exc>>
        /\ UNCHANGED <<domain, has_yaml, result_file, task_store, artifact, merits>>
        /\ UNCHANGED run_idle

\* for rule_name, check_fn in RULE_CHECKS: the next rule of the registry
RunRule ==
    /\ run_pc = "rules"
    /\ todo # <<>>
    /\ ApplyRule(1)

\* the rules invoked in an order other than that of the registry
InvokeAnyRule ==
    /\ run_pc = "rules"
    /\ \E i \in 1..Len(todo) : ApplyRule(i)

FinishRow ==
    /\ run_pc = "rules"
    /\ todo = <<>>
    /\ LET st == finish_row(domain, merits,
                            [exc |-> "none", task |-> task, acc |-> acc, row |-> row])
       IN  /\ row' = st.row
           /\ IF st.exc # "none" THEN Raise(st.exc)
              ELSE run_pc' = "done" /\ UNCHANGED run_exc
    /\ UNCHANGED <<domain, has_yaml, result_file, task_store, task, artifact,
                   merits, todo, acc>>
    /\ UNCHANGED run_idle

RunNext ==
    \/ ReadResult
    \/ LoadTask
    \/ ExtractRun
    \/ FailureRow
    \/ StructureStep
    \/ RunRule
    \/ FinishRow

\* the artifact that breaks every rule a task key switches on
GatedOut(d) ==
    LET m == Features(d) \ {n \in RuleNames(d) : Gate(d, n) # ""}
    IN  IF d = "sql" THEN <<m, Features(d)>> ELSE m

\* a run whose rules can be invoked in any order: the artifact breaks no
\* check and the task file is missing, or it breaks the gated rules and the
\* task file switches them on
OrderInit ==
    /\ domain \in Domains
    /\ has_yaml = FALSE
    /\ \E t \in {GoodText(domain), FailText(domain)} :
          \/ /\ result_file = RunRecord(Baseline, "task-1", RawPlain(t), AllMerits(domain))
             /\ task_store = {}
          \/ /\ result_file = RunRecord(Baseline, "task-1", RawPlain(t), GatedOut(domain))
             /\ task_store = {[task_id |-> "task-1", keys |-> GateKeys(domain)]}
    /\ run_pc = "read"
    /\ task = JNull
    /\ artifact = JNull
    /\ merits = {}
    /\ todo = <<>>
    /\ acc = NoAcc
    /\ row = NoRow
    /\ run_exc = "none"

OrderNext ==
    \/ ReadResult
    \/ LoadTask
    \/ ExtractRun
    \/ FailureRow
    \/ StructureStep
    \/ InvokeAnyRule
    \/ FinishRow

-----------------------------------------------------------------------------
(* main, step by step *)

main_idle == <<raw_output, pc, text_to_search, denied_content, ret, exc,
               result_file, run_pc, task, artifact, merits, todo, acc, row,
               run_exc, chart_vars, stats_vars, rule1_vars, args_vars, call_vars>>

MainInit ==
    /\ domain \in Domains
    /\ has_yaml \in (IF domain = "openapi" THEN BOOLEAN ELSE {FALSE})
    /\ task_store \in {{}, {[task_id |-> "task-1", keys |-> GateKeys(domain)]}}
    /\ files \in SeqsOf(BatchFiles(domain), 0, MaxFiles)
    /\ next_file = 1
    /\ rows = <<>>
    /\ log = <<>>
    /\ csv = <<>>
    /\ exit_code = -1
    /\ main_pc = "start"

\* if not files: print("No result files found."); sys.exit(1)
MainStart ==
    /\ main_pc = "start"
    /\ IF files = <<>>
       THEN exit_code' = 1 /\ main_pc' = "exited"
       ELSE main_pc' = "loop" /\ UNCHANGED exit_code
    /\ UNCHANGED <<domain, has_yaml, task_store, files, next_file, rows, log, csv>>
    /\ UNCHANGED main_idle

\* one iteration of  for f in files: try ... except Exception as e
EvaluateFile ==
    /\ main_pc = "loop"
    /\ next_file <= Len(files)
    /\ LET r == evaluate_run(domain, files[next_file], task_store, has_yaml)
       IN  IF r.exc = "none"
           THEN /\ rows' = Append(rows, [run_id |-> next_file, row |-> r.row])
                /\ UNCHANGED log
           ELSE /\ log' = Append(log, [file |-> next_file, error |-> r.exc])
                /\ UNCHANGED rows
    /\ next_file' = next_file + 1
    /\ UNCHANGED <<domain, has_yaml, task_store, files, csv, exit_code, main_pc>>
    /\ UNCHANGED main_idle

\* after the loop: with open(OUTPUT_CSV, "w"): writer.writerows(rows)
WriteCsv ==
    /\ main_pc = "loop"
    /\ next_file > Len(files)
    /\ csv' = Append(csv, rows)
    /\ main_pc' = "summary"
    /\ UNCHANGED <<domain, has_yaml, task_store, files, next_file, rows, log, exit_code>>
    /\ UNCHANGED main_idle

\* the summary: for cond in sorted(conditions); an uncaught TypeError ends
\* the process with status 1, the end of main with status 0
Summary ==
    /\ main_pc = "summary"
    /\ IF SortRaises(ConditionKeys(rows))
       THEN exit_code' = 1 /\ main_pc' = "crashed"
       ELSE exit_code' = 0 /\ main_pc' = "exited"
    /\ UNCHANGED <<domain, has_yaml, task_store, files, next_file, rows, log, csv>>
    /\ UNCHANGED main_idle

MainNext ==
    \/ MainStart
    \/ EvaluateFile
    \/ WriteCsv
    \/ Summary

-----------------------------------------------------------------------------
(* The chart rules in two processes, each with its own hash seed *)

chart_idle == <<domain, has_yaml, raw_output, pc, text_to_search,
                denied_content, ret, exc, run_vars, main_vars, stats_vars,
                rule1_vars, args_vars, call_vars>>

ChartInit ==
    /\ chart \in Charts
    /\ set_order = [p \in Procs |-> NotStarted]
    /\ results = [p \in Procs |-> <<>>]

\* The interpreter starts: PYTHONHASHSEED fixes the order in which the sets
\* fonts and data_colors of this process iterate
StartProcess(p) ==
    /\ ~set_order[p].started
    /\ \E fo \in Perms(chart.fonts), co \in Perms(DataColors(chart.colors)) :
          set_order' = [set_order EXCEPT
                          ![p] = [started |-> TRUE, fonts |-> fo, colors |-> co]]
    /\ UNCHANGED <<chart, results>>
    /\ UNCHANGED chart_idle

\* one evaluation of the chart by process p
EvaluateChart(p) ==
    /\ set_order[p].started
    /\ Len(results[p]) < MaxEvals
    /\ results' = [results EXCEPT ![p] =
                      Append(@, [rule_01 |-> rule_01_muted_palette(set_order[p].colors),
                                 rule_07 |-> rule_07_sans_serif(set_order[p].fonts)])]
    /\ UNCHANGED <<chart, set_order>>
    /\ UNCHANGED chart_idle

ChartNext ==
    \/ \E p \in Procs : StartProcess(p)
    \/ \E p \in Procs : EvaluateChart(p)

-----------------------------------------------------------------------------
(* Specifications *)

\* the extractors on every raw_output of the alphabet
Init ==
    /\ ExtractInit
    /\ task_store = {}
    /\ RunIdle
    /\ MainIdle
    /\ ChartIdle
    /\ StatsIdle
    /\ Rule1Idle
    /\ ArgsIdle
    /\ CallIdle

Next == ExtractNext

Spec == Init /\ [][Next]_vars

\* evaluate_run on every run file
InitRun ==
    /\ RunInit
    /\ ExtractIdle
    /\ MainIdle
    /\ ChartIdle
    /\ StatsIdle
    /\ Rule1Idle
    /\ ArgsIdle
    /\ CallIdle

SpecRun == InitRun /\ [][RunNext]_vars

\* evaluate_run with the rules in any order
InitOrder ==
    /\ OrderInit
    /\ ExtractIdle
    /\ MainIdle
    /\ ChartIdle
    /\ StatsIdle
    /\ Rule1Idle
    /\ ArgsIdle
    /\ CallIdle

SpecOrder == InitOrder /\ [][OrderNext]_vars

\* main on every batch
InitMain ==
    /\ MainInit
    /\ ExtractIdle
    /\ RunIdle
    /\ ChartIdle
    /\ StatsIdle
    /\ Rule1Idle
    /\ ArgsIdle
    /\ CallIdle

SpecMain == InitMain /\ [][MainNext]_vars

\* the chart rules in two processes
InitChart ==
    /\ ChartInit
    /\ domain = "chart"
    /\ has_yaml = FALSE
    /\ task_store = {}
    /\ ExtractIdle
    /\ RunIdle
    /\ MainIdle
    /\ StatsIdle
    /\ Rule1Idle
    /\ ArgsIdle
    /\ CallIdle

SpecChart == InitChart /\ [][ChartNext]_vars

-----------------------------------------------------------------------------
(* Properties of the extractors (specification Spec) *)

\* C2: whenever an extractor returns, exactly one of artifact and error is
\* non-null, and the error is a non-empty string.  (The inputs on which an
\* extractor raises instead of returning are the subject of C3.)
C2_ExactlyOne ==
    pc = "done" =>
        /\ (ret.artifact.k = "null") # (ret.error.k = "null")
        /\ ret.error.k # "null" => ret.error.k = "str" /\ TextLen(ret.error.v) > 0

\* an extractor has returned (None, reason) for an event stream
C2_Witness ==
    /\ pc = "done"
    /\ raw_output.k = "stream"
    /\ ret.artifact.k = "null"
    /\ ret.error.k = "str"

\* C3 as stated: no exception escapes unwrapping or extraction, whatever
\* the shape of the fields of the envelope
C3_NoExceptionEscapes == pc # "raised" /\ exc = "none"

\* the part.text of the events of type "text" of a stream, in input order
RECURSIVE C9_Texts(_)
C9_Texts(ls) ==
    IF ls = <<>> THEN <<>>
    ELSE (IF /\ Head(ls).k = "obj"
             /\ Head(ls).type = "text"
             /\ Head(ls).sessionID
             /\ Head(ls).part.k = "map"
             /\ Head(ls).part.text.k = "str"
          THEN <<Head(ls).part.text.v>> ELSE <<>>)
         \o C9_Texts(Tail(ls))

\* an event stream was recognised: some line is an object with the keys
\* type and sessionID
C9_Recognised(raw) ==
    /\ LooksJsonl(raw)
    /\ \E i \in 1..Len(RawLines(raw)) :
          /\ RawLines(raw)[i].k = "obj"
          /\ RawLines(raw)[i].type # "absent"
          /\ RawLines(raw)[i].sessionID

\* the working text by the priority of the claim
C9_Working(raw) ==
    IF WholeParse(raw).k = "obj" /\ WholeParse(raw).result.k # "absent"
    THEN WholeParse(raw).result
    ELSE IF C9_Recognised(raw)
         THEN IF C9_Texts(RawLines(raw)) = <<>> THEN JStr(EmptyText)
              ELSE JStr(JoinNL(C9_Texts(RawLines(raw))))
    ELSE InitialText(raw)

\* C9: after the JSONL step and the CLI step the working text is the value
\* of result when the whole string is one object with that key, else the
\* newline-join of the text events when a stream was recognised (the empty
\* string when there are none), else the raw input
C9_WorkingTextPriority ==
    pc = "step1b" => text_to_search = C9_Working(raw_output)

\* one object that is an event of a recognised stream and a CLI response:
\* result won over the text of the event
C9_Witness ==
    /\ pc = "step1b"
    /\ C9_Recognised(raw_output)
    /\ C9_Texts(RawLines(raw_output)) # <<>>
    /\ WholeParse(raw_output).k = "obj"
    /\ WholeParse(raw_output).result.k = "str"
    /\ text_to_search = WholeParse(raw_output).result
    /\ text_to_search # JStr(JoinNL(C9_Texts(RawLines(raw_output))))

\* the denied write payloads the fallback considers: string contents longer
\* than 20 characters of the Write denials, or, when there are none, of the
\* write events of the stream
C10_Payloads(raw) ==
    LET IsDenied(dn) == /\ dn.k = "map"
                        /\ dn.tool_name = "Write"
                        /\ dn.content.k = "str"
                        /\ TextLen(dn.content.v) > MinContentLen
        IsWritten(e) == /\ e.k = "obj"
                        /\ e.type = "tool_use"
                        /\ e.part.k = "map"
                        /\ e.part.tool = "write"
                        /\ e.part.content.k = "str"
                        /\ TextLen(e.part.content.v) > MinContentLen
        doc == WholeParse(raw)
        f1 == IF doc.k = "obj" /\ doc.denials.k = "list"
              THEN SelectSeq(doc.denials.v, IsDenied) ELSE <<>>
        f2 == IF LooksJsonl(raw) THEN SelectSeq(RawLines(raw), IsWritten) ELSE <<>>
    IN  IF f1 # <<>> THEN [i \in 1..Len(f1) |-> f1[i].content.v]
        ELSE [i \in 1..Len(f2) |-> f2[i].part.content.v]

\* the first of the longest payloads
C10_Longest(c) ==
    c[CHOOSE i \in 1..Len(c) :
         \A j \in 1..Len(c) :
            \/ TextLen(c[j]) < TextLen(c[i])
            \/ TextLen(c[j]) = TextLen(c[i]) /\ i <= j]

\* Step 1b has run on a working text without the marker, in an extractor
\* that tests the marker
C10_FallbackRan ==
    /\ pc \in {"cascade", "done"}
    /\ domain # "openapi"
    /\ ~EmptyOutput(domain, raw_output)
    /\ ~WorkingHasMarker(domain, raw_output, C9_Working(raw_output))

\* C10 as stated: whenever some denied write payload longer than 20
\* characters contains the marker, the working text is replaced by such a
\* payload
C10_AsStated ==
    (/\ C10_FallbackRan
     /\ \E i \in 1..Len(C10_Payloads(raw_output)) :
           HasMarker(domain, C10_Payloads(raw_output)[i]))
    => \E i \in 1..Len(C10_Payloads(raw_output)) :
          /\ HasMarker(domain, C10_Payloads(raw_output)[i])
          /\ text_to_search = JStr(C10_Payloads(raw_output)[i])

\* What Step 1b does instead: the fallback takes the first longest payload
\* whether or not it contains the marker, and replaces the working text
\* only when that payload contains the marker; otherwise the working text
\* stays
LongestThenMarker ==
    C10_FallbackRan =>
        text_to_search =
            IF /\ C10_Payloads(raw_output) # <<>>
               /\ HasMarker(domain, C10_Longest(C10_Payloads(raw_output)))
            THEN JStr(C10_Longest(C10_Payloads(raw_output)))
            ELSE C9_Working(raw_output)

-----------------------------------------------------------------------------
(* Properties of evaluate_run (specifications SpecRun and SpecOrder) *)

\* the number of rules of the domain that count toward the score
ScoredCount(d) == Len(RULE_CHECKS(d)) - Cardinality(EXCLUDED_RULES(d))

\* C1 as stated: when extraction fails the row has auto_score 0 and
\* scored_rules equal to the number of non-excluded rules, which is not zero
C1_AsStated ==
    (run_pc = "done" /\ ~row.extraction_ok) =>
        /\ row.auto_score = Zero
        /\ row.scored_rules = ScoredCount(domain)
        /\ row.scored_rules # 0

\* C1 amended: when extraction fails the row has auto_score 0 and
\* scored_rules 0; the quotient auto_score/scored_rules does not exist, and
\* the failure rate of the row is 1.0 because its consumers map
\* scored_rules = 0 to 1.0
C1_FailureRowIsZero ==
    (run_pc = "done" /\ ~row.extraction_ok) =>
        /\ row.auto_score = Zero
        /\ row.scored_rules = 0
        /\ failure_rate(row) = One

\* a finished row of a run whose output held no artifact
C1_Witness ==
    /\ run_pc = "done"
    /\ ~row.extraction_ok
    /\ row.extraction_error # ""
    /\ row.scored_rules = 0
    /\ ScoredCount(domain) > 0

\* no task file of test-data matches the task of the run
C5_LookupMiss == \A f \in task_store : f.task_id # result_file.task

\* C5 as stated: after a lookup miss the task metadata is the empty
\* mapping, and no rule or outcome check raises on the extracted artifact
C5_AsStated ==
    (/\ run_pc \in {"extract", "failure", "structure", "rules", "done", "raised"}
     /\ result_file.kind = "run"
     /\ C5_LookupMiss)
    => /\ task = TaskDict({})
       /\ ~(run_pc = "raised" /\ artifact.k # "null")

\* the sum of the recorded scores of the rules of a set
RECURSIVE C6_Sum(_)
C6_Sum(names) ==
    IF names = {} THEN Zero
    ELSE LET n == CHOOSE x \in names : TRUE
         IN  FracAdd(row.verdicts[n].score, C6_Sum(names \ {n}))

-----------------------------------------------------------------------------
(* Properties of main (specification SpecMain) *)

\* evaluating file i of the batch fails
C4_Fails(i) == evaluate_run(domain, files[i], task_store, has_yaml).exc # "none"

\* the indices of a set, ascending
RECURSIVE C4_Ascending(_)
C4_Ascending(S) ==
    IF S = {} THEN <<>>
    ELSE LET lo == CHOOSE x \in S : \A y \in S : x <= y
         IN  <<lo>> \o C4_Ascending(S \ {lo})

\* C4 as stated: when main ends on a batch of run files, every file whose
\* evaluation failed has been logged and skipped, every other file has its
\* row, rows and log follow the input order, the CSV was written exactly
\* once with those rows, and the exit status is 0
C4_AsStated ==
    (main_pc \in {"exited", "crashed"} /\ files # <<>>) =>
        /\ [i \in 1..Len(log) |-> log[i].file]
              = C4_Ascending({i \in 1..Len(files) : C4_Fails(i)})
        /\ [i \in 1..Len(rows) |-> rows[i].run_id]
              = C4_Ascending({i \in 1..Len(files) : ~C4_Fails(i)})
        /\ csv = <<rows>>
        /\ exit_code = 0

\* The part of C4 the code keeps: log, rows and the single write of the CSV
BatchIsolation ==
    (main_pc \in {"exited", "crashed"} /\ files # <<>>) =>
        /\ [i \in 1..Len(log) |-> log[i].file]
              = C4_Ascending({i \in 1..Len(files) : C4_Fails(i)})
        /\ [i \in 1..Len(rows) |-> rows[i].run_id]
              = C4_Ascending({i \in 1..Len(files) : ~C4_Fails(i)})
        /\ csv = <<rows>>

-----------------------------------------------------------------------------
(* Properties of the chart rules (specification SpecChart) *)

\* C7 as stated: two evaluations of the same chart, in the same process or
\* in two processes, give the same verdicts and the same detail strings
C7_AsStated ==
    \A p, q \in Procs :
       \A i \in 1..Len(results[p]), j \in 1..Len(results[q]) :
          results[p][i] = results[q][j]

\* The part of C7 the code keeps: the verdicts agree, and so do the detail
\* strings of the evaluations of one process
SameProcessDeterminism ==
    \A p, q \in Procs :
       \A i \in 1..Len(results[p]), j \in 1..Len(results[q]) :
          /\ results[p][i].rule_01.verdict = results[q][j].rule_01.verdict
          /\ results[p][i].rule_07.verdict = results[q][j].rule_07.verdict
          /\ p = q => results[p][i] = results[q][j]

-----------------------------------------------------------------------------
(* Step 1b: the longest payload *)

\* two payloads, the longer one first and with the marker: it replaced the
\* working text
LongestFirstReplaced ==
    /\ C10_FallbackRan
    /\ Len(C10_Payloads(raw_output)) = 2
    /\ TextLen(C10_Payloads(raw_output)[1]) > TextLen(C10_Payloads(raw_output)[2])
    /\ HasMarker(domain, C10_Payloads(raw_output)[1])
    /\ text_to_search = JStr(C10_Payloads(raw_output)[1])
    /\ text_to_search # C9_Working(raw_output)

-----------------------------------------------------------------------------
(* The SQL extractor on texts of several fenced blocks (specification      *)
(* SpecSql)                                                                *)

\* a text holds at most this many fenced blocks
MaxBlocks == 2
\* at most this many lines of prose stand between a filename comment and
\* the fence after it
MaxGap == 4

\* what stands before the fence of a block: nothing, a filename comment, or
\* a filename comment and lines of prose
SqlHeaders ==
    {<<>>, <<SqlNameB>>}
    \cup {<<SqlNameA>> \o [j \in 1..n |-> SqlProse] : n \in 0..MaxGap}

\* what stands inside the fence
SqlBodies ==
    {<<SqlSel>>, <<SqlWith>>, <<SqlNameB, SqlSel>>, <<"", SqlNameB>>, <<"">>}

SqlBlocks == {h \o <<"'''sql">> \o b \o <<"'''">> : h \in SqlHeaders, b \in SqlBodies}

RECURSIVE SqlDocsOf(_)
SqlDocsOf(n) ==
    IF n = 0 THEN {<<>>}
    ELSE {d \o b : d \in SqlDocsOf(n - 1), b \in SqlBlocks} \cup SqlDocsOf(n - 1)

SqlDocs == SqlDocsOf(MaxBlocks) \ {<<>>}

SqlInit ==
    /\ domain = "sql"
    /\ raw_output \in {RawPlain(d) : d \in SqlDocs}
    /\ has_yaml = FALSE
    /\ pc = "start"
    /\ text_to_search = JNull
    /\ denied_content = JNull
    /\ ret = NoRet
    /\ exc = "none"

InitSql ==
    /\ SqlInit
    /\ task_store = {}
    /\ RunIdle
    /\ MainIdle
    /\ ChartIdle
    /\ StatsIdle
    /\ Rule1Idle
    /\ ArgsIdle
    /\ CallIdle

SpecSql == InitSql /\ [][ExtractNext]_vars

\* the line that closes the fence opened on line o, Len(t) + 1 if none
C11_Close(t, o) ==
    LET S == {j \in (o + 1)..Len(t) : IsFenceStart(t[j])}
    IN  IF S = {} THEN Len(t) + 1 ELSE CHOOSE j \in S : \A k \in S : j <= k

\* the lines that open a sql fence, from line from on
RECURSIVE C11_Openers(_, _)
C11_Openers(t, from) ==
    LET S == {j \in from..Len(t) : IsSqlOpener(t[j])}
        o == CHOOSE j \in S : \A k \in S : j <= k
    IN  IF S = {} THEN <<>> ELSE <<o>> \o C11_Openers(t, C11_Close(t, o) + 1)

\* the name of the nearest filename comment on the four lines before line o
C11_Before(t, o) ==
    LET S == {j \in 1..Len(t) : j < o /\ j >= o - 4 /\ NameOf(t[j]) # ""}
    IN  IF S = {} THEN "" ELSE NameOf(t[CHOOSE j \in S : \A k \in S : j >= k])

C11_Raw(t, o) == SubSeq(t, o + 1, C11_Close(t, o) - 1)

\* the items {name: body} after the fences of opens; found holds the items
\* so far.  trimmed: the body is trimmed before it is looked at, and a fence
\* whose trimmed body is empty gives no model
RECURSIVE C11_Fold(_, _, _, _)
C11_Fold(t, opens, found, trimmed) ==
    IF opens = <<>> THEN found
    ELSE LET o == Head(opens)
             body == Strip(C11_Raw(t, o))
             first == IF trimmed THEN body[1]
                      ELSE IF C11_Raw(t, o) = <<>> THEN "" ELSE C11_Raw(t, o)[1]
             name == IF C11_Before(t, o) # "" THEN C11_Before(t, o)
                     ELSE IF NameOf(first) # "" THEN NameOf(first)
                     ELSE "unnamed_" \o ToString(Cardinality({p[1] : p \in found}) + 1)
         IN  IF trimmed /\ body = EmptyText
             THEN C11_Fold(t, Tail(opens), found, trimmed)
             ELSE C11_Fold(t, Tail(opens),
                           {p \in found : p[1] # name} \cup {<<name, body>>}, trimmed)

\* the items of the dict an extraction returned
C11_Items == {<<ret.artifact.v[j].name, ret.artifact.v[j].sql>> : j \in 1..Len(ret.artifact.v)}

\* C11 as stated: every sql fence gives a model, named from the four lines
\* before the fence, else from the first line inside the fence, else
\* unnamed_N; a later block of the same name replaces the earlier one
C11_AsStated ==
    (domain = "sql" /\ pc = "done" /\ raw_output.k = "plain"
       /\ C11_Openers(raw_output.v, 1) # <<>>) =>
        /\ ret.artifact.k = "models"
        /\ C11_Items = C11_Fold(raw_output.v, C11_Openers(raw_output.v, 1), {}, FALSE)

\* C11, amended: every sql fence whose trimmed body is not empty gives a
\* model, named from the nearest filename comment on the four lines before
\* the fence, else from a filename comment on the first line of the trimmed
\* body, else unnamed_N with N one more than the number of models found so
\* far; a later block of the same name replaces the earlier body; a fence
\* whose trimmed body is empty gives no model in this scan
C11_NamedModels ==
    (domain = "sql" /\ pc = "done" /\ raw_output.k = "plain") =>
        \A want \in {C11_Fold(raw_output.v, C11_Openers(raw_output.v, 1), {}, TRUE)} :
            IF want # {}
            THEN ret.artifact.k = "models" /\ C11_Items = want
            ELSE \/ ret.artifact.k = "null"
                 \/ ret.artifact.k = "models" /\ {p[1] : p \in C11_Items} = {"unnamed_1"}

\* two fences with different bodies were read and one model is left: the
\* second block took the name of the first and replaced its body
C11_Witness ==
    /\ domain = "sql"
    /\ pc = "done"
    /\ raw_output.k = "plain"
    /\ ret.artifact.k = "models"
    /\ Len(ret.artifact.v) = 1
    /\ \E o1, o2 \in 1..Len(raw_output.v) :
          /\ C11_Openers(raw_output.v, 1) = <<o1, o2>>
          /\ Strip(C11_Raw(raw_output.v, o1)) # Strip(C11_Raw(raw_output.v, o2))
          /\ Strip(C11_Raw(raw_output.v, o1)) # EmptyText
          /\ ret.artifact.v[1].sql = Strip(C11_Raw(raw_output.v, o2))

-----------------------------------------------------------------------------
(* Properties of the per-file SQL rules (specification SpecRun) *)

\* the models of the artifact to which the per-file rule name applies:
\* rules 8 and 9 skip the staging models, rule 7 the models without a JOIN
C12_Applies(name) ==
    {i \in 1..Len(artifact.v) :
        CASE name \in {"rule_8_coalesce_unknown", "rule_9_row_number_dedup"} ->
               ~IsStaging(artifact.v[i].name)
          [] name = "rule_7_left_join_only" -> "has_join" \in merits[i]
          [] OTHER -> TRUE}

\* the three cases in which the task requires what the rule looks for
C12_Required(name) ==
    \/ name = "rule_7_left_join_only" /\ Truthy(task, "requires_left_join")
    \/ name = "rule_8_coalesce_unknown" /\ Truthy(task, "nullable_dimension_columns")
    \/ name = "rule_9_row_number_dedup" /\ Truthy(task, "requires_deduplication")

-----------------------------------------------------------------------------
(* The Terraform extractor on texts of several fenced blocks               *)
(* (specification SpecTf)                                                  *)

\* a fenced block, tagged or untagged, after nothing or after a line of prose
TfBlocks ==
    {s \o <<f>> \o b \o <<"'''">> :
        s \in {<<>>, <<TfProse>>, <<TfData>>},
        f \in {"'''hcl", "'''"},
        b \in {<<TfRes>>, <<TfVar>>, <<TfProse>>}}

RECURSIVE TfDocsOf(_)
TfDocsOf(n) ==
    IF n = 0 THEN {<<>>}
    ELSE {d \o b : d \in TfDocsOf(n - 1), b \in TfBlocks} \cup TfDocsOf(n - 1)

TfDocs == TfDocsOf(MaxBlocks) \ {<<>>}

TfInit ==
    /\ domain = "terraform"
    /\ raw_output \in {RawPlain(d) : d \in TfDocs}
    /\ has_yaml = FALSE
    /\ pc = "start"
    /\ text_to_search = JNull
    /\ denied_content = JNull
    /\ ret = NoRet
    /\ exc = "none"

InitTf ==
    /\ TfInit
    /\ task_store = {}
    /\ RunIdle
    /\ MainIdle
    /\ ChartIdle
    /\ StatsIdle
    /\ Rule1Idle
    /\ ArgsIdle
    /\ CallIdle

SpecTf == InitTf /\ [][ExtractNext]_vars

\* the first fence line at or after line from, 0 if none
C13_Fence(t, from) ==
    LET S == {j \in from..Len(t) : IsFenceStart(t[j])}
    IN  IF S = {} THEN 0 ELSE CHOOSE j \in S : \A k \in S : j <= k

\* the contents of the fenced blocks of t in the order of the text: a
\* block runs from a fence line to the next fence line
RECURSIVE C13_Fenced(_, _)
C13_Fenced(t, from) ==
    LET o == C13_Fence(t, from)
        c == C13_Fence(t, o + 1)
    IN  IF o = 0 \/ c = 0 THEN <<>>
        ELSE <<Strip(SubSeq(t, o + 1, c - 1))>> \o C13_Fenced(t, c + 1)

\* C13 as stated: when the text holds fenced blocks that look like
\* Terraform, the extractor returns these blocks, all of them and nothing
\* else, joined by empty lines (in some order)
C13_AsStated ==
    (domain = "terraform" /\ pc = "done" /\ raw_output.k = "plain") =>
        \A q \in {SelectSeq(C13_Fenced(raw_output.v, 1), _looks_like_terraform)} :
            q # <<>> =>
                \E p \in Perms(1..Len(q)) :
                    ret.artifact = JStr(JoinBlank([j \in 1..Len(q) |-> q[p[j]]]))

-----------------------------------------------------------------------------
(* C14: extract_spec on texts of several fenced blocks *)

\* a fenced block of an answer, after no line or one line of prose
OaBlocks ==
    {s \o <<f>> \o b \o <<"'''">> :
        s \in {<<>>, <<OaProse>>},
        f \in {"'''json", "'''yaml", "'''yml", "'''"},
        b \in {<<OaJson>>, <<OaBad>>, <<OaYaml>>, <<OaList>>, <<OaProse>>}}

RECURSIVE OaDocsOf(_)
OaDocsOf(n) ==
    IF n = 0 THEN {<<>>}
    ELSE {d \o b : d \in OaDocsOf(n - 1), b \in OaBlocks} \cup OaDocsOf(n - 1)

OaDocs == OaDocsOf(MaxBlocks) \ {<<>>}

\* the answers inside a Claude CLI response whose Write was denied
OaShort == {<<f>> \o b \o <<"'''">> : f \in {"'''json", "'''"},
                                      b \in {<<OaJson>>, <<OaBad>>, <<OaList>>}}

OaDenied ==
    {RawSingle(Obj("absent", FALSE, NoPart, JStr(p),
                   DenialList(<<DenialMap("Write", JStr(q))>>)), FALSE) :
        p \in OaShort, q \in OaShort}

OaInit ==
    /\ domain = "openapi"
    /\ raw_output \in {RawPlain(d) : d \in OaDocs} \cup OaDenied
    /\ has_yaml \in BOOLEAN
    /\ pc = "start"
    /\ text_to_search = JNull
    /\ denied_content = JNull
    /\ ret = NoRet
    /\ exc = "none"

InitOa ==
    /\ OaInit
    /\ task_store = {}
    /\ RunIdle
    /\ MainIdle
    /\ ChartIdle
    /\ StatsIdle
    /\ Rule1Idle
    /\ ArgsIdle
    /\ CallIdle

SpecOa == InitOa /\ [][ExtractNext]_vars

\* the block parses to a mapping, as JSON or, where PyYAML is installed, as
\* YAML
C14_Parses(b) == JsonDict(b) \/ (has_yaml /\ YamlDict(b))

\* C14 as stated: when a fenced block of the primary text parses to a
\* mapping, the extractor returns the mapping of such a block; the content
\* of a denied Write is used only when the primary text yields nothing
C14_AsStated ==
    (domain = "openapi" /\ pc = "done" /\ text_to_search.k = "str") =>
        /\ \A q \in {SelectSeq(C13_Fenced(text_to_search.v, 1), C14_Parses)} :
               q # <<>> =>
                   \E j \in 1..Len(q) : ret = Found(Dict(NonBlank(q[j])))
        /\ \A c \in {oa_candidate(text_to_search.v, has_yaml)} :
               c # NoSpec => ret = Found(c)

-----------------------------------------------------------------------------
(* The statistics helpers on every pair of small samples *)

\* the longest sample
MaxSample == 3

\* the values of a sample are 0..MaxValue
MaxValue == 1

Samples == SeqsOf(0..MaxValue, 0, MaxSample)

StatsInit ==
    /\ stat_impl \in StatScripts
    /\ stat_op \in (IF stat_impl \in MwuScripts THEN {"cliffs_delta", "mwu"}
                    ELSE {"cliffs_delta"})
    /\ stat_x \in Samples
    /\ stat_y \in Samples
    /\ stat_out = NoStat
    /\ stat_pc = "call"

stats_idle == <<extract_vars, run_vars, main_vars, chart_vars, rule1_vars,
                args_vars, call_vars>>

\* delta, mag = cliffs_delta(x, y);  in recompute_stats  d = cliffs_delta(x, y)
CliffsDelta ==
    /\ stat_pc = "call"
    /\ stat_op = "cliffs_delta"
    /\ LET r == cliffs_delta(stat_impl, stat_x, stat_y)
       IN  /\ stat_out' = r
           /\ stat_pc' = IF r.exc # "none" THEN "raised"
                         ELSE IF stat_impl = "recompute_stats" THEN "delta"
                         ELSE "done"
    /\ UNCHANGED <<stat_impl, stat_op, stat_x, stat_y>>
    /\ UNCHANGED stats_idle

\* recompute_stats: magnitude(d) on the delta that cliffs_delta returned
Magnitude ==
    /\ stat_pc = "delta"
    /\ stat_out' = [stat_out EXCEPT !.mag = magnitude(stat_impl, stat_out.delta)]
    /\ stat_pc' = "done"
    /\ UNCHANGED <<stat_impl, stat_op, stat_x, stat_y>>
    /\ UNCHANGED stats_idle

\* u, p = mwu(x, y)
Mwu ==
    /\ stat_pc = "call"
    /\ stat_op = "mwu"
    /\ \E r \in mwu(stat_impl, stat_x, stat_y) :
           /\ stat_out' = r
           /\ stat_pc' = IF r.exc # "none" THEN "raised" ELSE "done"
    /\ UNCHANGED <<stat_impl, stat_op, stat_x, stat_y>>
    /\ UNCHANGED stats_idle

StatsNext ==
    \/ CliffsDelta
    \/ Magnitude
    \/ Mwu

InitStats ==
    /\ StatsInit
    /\ domain = "none"
    /\ has_yaml = FALSE
    /\ task_store = {}
    /\ ExtractIdle
    /\ RunIdle
    /\ MainIdle
    /\ ChartIdle
    /\ Rule1Idle
    /\ ArgsIdle
    /\ CallIdle

SpecStats == InitStats /\ [][StatsNext]_vars

\* a call of cliffs_delta, and of magnitude where it is a function of its
\* own, has returned for two samples that are not empty
DeltaReturned ==
    /\ stat_op = "cliffs_delta"
    /\ stat_pc = "done"
    /\ stat_x # <<>>
    /\ stat_y # <<>>

\* the label the script gives the delta d
LabelOf(d) == magnitude(stat_impl, d)

Neg(d) == [num |-> -d.num, den |-> d.den]

\* C15: for samples x and y that are not empty, the delta of (x, y) is the
\* negation of the delta of (y, x), and the two calls give the same label
C15_Antisymmetric ==
    DeltaReturned =>
        \A r \in {cliffs_delta(stat_impl, stat_y, stat_x)} :
            /\ r.exc = "none"
            /\ stat_out.delta = Neg(r.delta)
            /\ stat_out.mag = LabelOf(r.delta)

C15_Witness ==
    /\ DeltaReturned
    /\ stat_out.delta.num > 0
    /\ stat_out.delta.num < stat_out.delta.den

\* every x_i is below every y_j
AllBelow(x, y) == \A i \in 1..Len(x) : \A j \in 1..Len(y) : x[i] < y[j]

\* C16 as stated: for all samples cliffs_delta returns a delta, the delta
\* lies in [-1, 1], it is (#{x_i > y_j} - #{x_i < y_j}) / (|x| * |y|) where
\* this quotient is defined, -1 when every x_i is below every y_j and 1 when
\* every y_j is below every x_i
C16_AsStated ==
    (stat_op = "cliffs_delta" /\ stat_pc # "call") =>
        /\ stat_pc # "raised"
        /\ -stat_out.delta.den <= stat_out.delta.num
        /\ stat_out.delta.num <= stat_out.delta.den
        /\ (stat_x # <<>> /\ stat_y # <<>>) =>
               /\ stat_out.delta.num * Len(stat_x) * Len(stat_y) =
                      (more(stat_x, stat_y) - less(stat_x, stat_y)) * stat_out.delta.den
               /\ AllBelow(stat_x, stat_y) => stat_out.delta = Frac(-1, 1)
               /\ AllBelow(stat_y, stat_x) => stat_out.delta = Frac(1, 1)

\* the place of a label in the order negligible < small < medium < large
Rank(l) ==
    CASE l \in {"negligible", "negl."} -> 1
      [] l = "small" -> 2
      [] l = "medium" -> 3
      [] l = "large" -> 4
      [] OTHER -> 0

\* the band of |d| by the thresholds 0.147, 0.33 and 0.474
C17_Band(d) ==
    IF Abs(d.num) * 1000 < 147 * d.den THEN "negligible"
    ELSE IF Abs(d.num) * 100 < 33 * d.den THEN "small"
    ELSE IF Abs(d.num) * 1000 < 474 * d.den THEN "medium"
    ELSE "large"

\* the deltas of samples of up to MaxSample values
DeltaGrid ==
    {Frac(k, n) : k \in -(MaxSample * MaxSample)..(MaxSample * MaxSample),
                  n \in 1..(MaxSample * MaxSample)}

C18_AsStated == stat_pc # "raised"

-----------------------------------------------------------------------------
(* main from the command line *)

\* an argument: a run file whose name ends with ".json", or a file of
\* another name
Args(d) ==
    {[json |-> TRUE, file |-> f] : f \in BatchFiles(d)}
    \cup {[json |-> FALSE, file |-> NotJson]}

\* RESULTS_DIR: missing, empty, or with one run file
Dirs(d) ==
    {[exists |-> FALSE, files |-> <<>>], [exists |-> TRUE, files |-> <<>>]}
    \cup {[exists |-> TRUE,
           files |-> <<RunRecord(c, "task-1", RawEmpty, AllMerits(d))>>] :
              c \in Conditions}

ArgvInit ==
    /\ domain \in {"terraform", "sql"}
    /\ has_yaml = FALSE
    /\ task_store = {}
    /\ argv \in SeqsOf(Args(domain), 0, MaxFiles)
    /\ results_dir \in Dirs(domain)
    /\ files = <<>>
    /\ next_file = 1
    /\ rows = <<>>
    /\ log = <<>>
    /\ csv = <<>>
    /\ exit_code = -1
    /\ main_pc = "args"

\* [Path(f) for f in sys.argv[1:] if f.endswith(".json")]
json_args(args) ==
    LET EndsWithJson(a) == a.json
        kept == SelectSeq(args, EndsWithJson)
    IN  [i \in 1..Len(kept) |-> kept[i].file]

\* the head of main: files from the arguments, or from RESULTS_DIR
ParseArgs ==
    /\ main_pc = "args"
    /\ IF argv # <<>>
       THEN /\ files' = json_args(argv)
            /\ main_pc' = "start"
            /\ UNCHANGED exit_code
       ELSE IF ~results_dir.exists
       THEN /\ exit_code' = 1
            /\ main_pc' = "exited"
            /\ UNCHANGED files
       ELSE /\ files' = results_dir.files
            /\ main_pc' = "start"
            /\ UNCHANGED exit_code
    /\ UNCHANGED <<domain, has_yaml, task_store, next_file, rows, log, csv>>
    /\ UNCHANGED main_idle

ArgvNext ==
    \/ ParseArgs
    \/ MainStart
    \/ EvaluateFile
    \/ WriteCsv
    \/ Summary

InitArgv ==
    /\ ArgvInit
    /\ ExtractIdle
    /\ RunIdle
    /\ ChartIdle
    /\ StatsIdle
    /\ Rule1Idle
    /\ CallIdle

SpecArgv == InitArgv /\ [][ArgvNext]_vars

\* C19 as stated: with file arguments, once the loop of main is over every
\* argument has given a row or a logged error; and the exit status is 1
\* only when RESULTS_DIR is missing or no candidate file was found
C19_AsStated ==
    /\ (argv # <<>> /\ csv # <<>>) => Len(rows) + Len(log) = Len(argv)
    /\ exit_code = 1 =>
           \/ argv = <<>> /\ ~results_dir.exists
           \/ files = <<>>

-----------------------------------------------------------------------------
(* check_rule_1_tag on every Dockerfile of a few instructions *)

\* the longest Dockerfile, in instructions
MaxInstr == 3

Instrs ==
    {FromInstr(n, t, a) : n \in {"node", "builder", "scratch"},
                          t \in {"", "18", "latest"},
                          a \in {"", "Builder"}}
    \cup {RunInstr}

Rule1Init ==
    /\ rule1_file \in SeqsOf(Instrs, 1, MaxInstr)
    /\ rule1_ret = NoRule1
    /\ rule1_pc = "call"

rule1_idle == <<extract_vars, run_vars, main_vars, chart_vars, stats_vars,
                args_vars, call_vars>>

\* passed, detail = check_rule_1_tag(dockerfile, task)
CheckRule1 ==
    /\ rule1_pc = "call"
    /\ rule1_ret' = check_rule_1_tag(rule1_file)
    /\ rule1_pc' = "done"
    /\ UNCHANGED rule1_file
    /\ UNCHANGED rule1_idle

Rule1Next == CheckRule1

InitRule1 ==
    /\ Rule1Init
    /\ domain = "dockerfile"
    /\ has_yaml = FALSE
    /\ task_store = {}
    /\ ExtractIdle
    /\ RunIdle
    /\ MainIdle
    /\ ChartIdle
    /\ StatsIdle
    /\ ArgsIdle
    /\ CallIdle

SpecRule1 == InitRule1 /\ [][Rule1Next]_vars

\* the FROM instructions of a Dockerfile
C20_Froms(df) == LET IsFrom(i) == i.instr = "FROM" IN SelectSeq(df, IsFrom)

\* FROM number i names the alias that an earlier FROM ... AS alias declared
C20_EarlierAlias(fs, i) ==
    /\ fs[i].tag = ""
    /\ \E j \in 1..(i - 1) :
           fs[j].alias # "" /\ Lower(fs[j].alias) = Lower(fs[i].name)

\* FROM number i is acceptable: a tag other than latest, scratch, or the
\* alias of an earlier stage
C20_Accepted(fs, i) ==
    \/ fs[i].tag \notin {"", "latest"}
    \/ fs[i].tag = "" /\ fs[i].name = "scratch"
    \/ C20_EarlierAlias(fs, i)

\* C20 as stated: on a Dockerfile with a FROM instruction, rule 1 passes if
\* and only if every FROM carries a tag other than latest, or names scratch,
\* or names the alias of a stage that an earlier FROM ... AS alias declared
C20_AsStated ==
    rule1_pc = "done" =>
        \A fs \in {C20_Froms(rule1_file)} :
            fs # <<>> =>
                (rule1_ret.passed <=> \A i \in 1..Len(fs) : C20_Accepted(fs, i))

-----------------------------------------------------------------------------
(* Dockerfile rules 5 and 6 on the instruction sequence.  An instruction    *)
(* keeps its name, for FROM the image part and the word after AS ("" when   *)
(* there is none), and for COPY and RUN the kind of its arguments.          *)

Ins(instr, name, alias, arg) ==
    [instr |-> instr, name |-> name, alias |-> alias, arg |-> arg]

\* the longest Dockerfile of the rule 5 and rule 6 checks, in instructions
MaxDockerLen == 5

\* first pass of check_rule_5_workdir: the aliases whose stage holds a
\* WORKDIR; current_alias "" is None
RECURSIVE stage_has_workdir(_, _, _)
stage_has_workdir(ins, i, current_alias) ==
    IF i > Len(ins) THEN {}
    ELSE IF ins[i].instr = "FROM"
         THEN stage_has_workdir(ins, i + 1, Lower(ins[i].alias))
    ELSE IF ins[i].instr = "WORKDIR" /\ current_alias # ""
         THEN {current_alias} \cup stage_has_workdir(ins, i + 1, current_alias)
    ELSE stage_has_workdir(ins, i + 1, current_alias)

\* COPY --from=, or a RUN of one of the listed system commands
Rule5Exempt(x) ==
    \/ x.instr = "COPY" /\ x.arg = "--from="
    \/ x.instr = "RUN" /\ x.arg = "apt-get"

\* second pass of check_rule_5_workdir
RECURSIVE Rule5Loop(_, _, _, _)
Rule5Loop(ins, i, workdir_seen, has) ==
    IF i > Len(ins) THEN [passed |-> TRUE, detail |-> "ok"]
    ELSE IF ins[i].instr = "FROM"
         THEN Rule5Loop(ins, i + 1, Lower(ins[i].name) \in has, has)
    ELSE IF ins[i].instr = "WORKDIR" THEN Rule5Loop(ins, i + 1, TRUE, has)
    ELSE IF /\ ins[i].instr \in {"COPY", "RUN", "ADD"}
            /\ ~workdir_seen
            /\ ~Rule5Exempt(ins[i])
         THEN [passed |-> FALSE, detail |-> "before WORKDIR in a stage"]
    ELSE Rule5Loop(ins, i + 1, workdir_seen, has)

check_rule_5_workdir(dockerfile) ==
    Rule5Loop(dockerfile, 1, FALSE, stage_has_workdir(dockerfile, 1, ""))

Rule5Instrs ==
    {Ins("FROM", n, a, "") : n \in {"node:18", "base", "build"},
                             a \in {"", "base", "build"}}
    \cup {Ins("WORKDIR", "", "", "/app"), Ins("COPY", "", "", ". ."),
          Ins("COPY", "", "", "--from="), Ins("RUN", "", "", "make"),
          Ins("RUN", "", "", "apt-get")}

Rule5Init ==
    /\ callee = "check_rule_5_workdir"
    /\ call_arg \in {d \in SeqsOf(Rule5Instrs, 1, MaxDockerLen) :
                        d[1].instr = "FROM" /\ d[1].name = "node:18"}
    /\ call_ret = <<>>
    /\ call_pc = "call"

call_idle == <<extract_vars, run_vars, main_vars, chart_vars, stats_vars,
               rule1_vars, args_vars>>

\* passed, detail = check_rule_5_workdir(dockerfile, task)
CheckRule5 ==
    /\ call_pc = "call"
    /\ callee = "check_rule_5_workdir"
    /\ call_ret' = check_rule_5_workdir(call_arg)
    /\ call_pc' = "done"
    /\ UNCHANGED <<callee, call_arg>>
    /\ UNCHANGED call_idle

Rule5Next == CheckRule5

\* the variables of the extractors, of evaluate_run, of main and of the
\* other functions, at rest
OthersIdle ==
    /\ domain = "none"
    /\ has_yaml = FALSE
    /\ task_store = {}
    /\ ExtractIdle
    /\ RunIdle
    /\ MainIdle
    /\ ChartIdle
    /\ StatsIdle
    /\ Rule1Idle
    /\ ArgsIdle

InitRule5 == Rule5Init /\ OthersIdle

SpecRule5 == InitRule5 /\ [][Rule5Next]_vars

\* The flag as C21 describes it, after instruction i: reset at a FROM, set
\* by WORKDIR, and at a FROM that names the alias of a prior stage the
\* status that stage ended with.  known: the aliases of the prior stages,
\* with: those whose stage ended with the flag set, cur: the alias of the
\* stage at hand.
RECURSIVE C21_Fails(_, _, _, _, _, _)
C21_Fails(ins, i, flag, cur, known, with) ==
    IF i > Len(ins) THEN FALSE
    ELSE IF ins[i].instr = "FROM"
         THEN LET known2 == IF cur = "" THEN known ELSE known \cup {cur}
                  with2 == IF cur = "" THEN with
                           ELSE IF flag THEN with \cup {cur} ELSE with \ {cur}
              IN  C21_Fails(ins, i + 1, Lower(ins[i].name) \in with2,
                            Lower(ins[i].alias), known2, with2)
    ELSE IF ins[i].instr = "WORKDIR"
         THEN C21_Fails(ins, i + 1, TRUE, cur, known, with)
    ELSE IF /\ ins[i].instr \in {"COPY", "RUN", "ADD"}
            /\ ~flag
            /\ ~(ins[i].instr = "COPY" /\ ins[i].arg = "--from=")
            /\ ~(ins[i].instr = "RUN" /\ ins[i].arg = "apt-get")
         THEN TRUE
    ELSE C21_Fails(ins, i + 1, flag, cur, known, with)

\* C21 as stated: rule 5 fails exactly when a COPY, ADD or RUN that is not
\* exempt is reached while the flag of its stage is unset, the flag being
\* reset at each FROM, set by WORKDIR, and taken from the prior stage whose
\* alias a FROM names
C21_AsStated ==
    (callee = "check_rule_5_workdir" /\ call_pc = "done") =>
        (call_ret.passed <=> ~C21_Fails(call_arg, 1, FALSE, "", {}, {}))

\* check_rule_6_deps_first: the loop over the instructions, then the verdict
RECURSIVE Rule6Loop(_, _, _, _)
Rule6Loop(ins, i, found_dep_copy, found_broad_copy) ==
    IF i > Len(ins)
    THEN IF found_broad_copy /\ ~found_dep_copy
              THEN [passed |-> FALSE, detail |-> "broad COPY before dependency file COPY"]
         ELSE IF found_dep_copy
              THEN [passed |-> TRUE, detail |-> "ok (deps copied before source)"]
         ELSE [passed |-> TRUE, detail |-> "needs_review (no broad COPY detected)"]
    ELSE IF ins[i].instr = "FROM" THEN Rule6Loop(ins, i + 1, FALSE, FALSE)
    ELSE IF ins[i].instr = "COPY" /\ ins[i].arg # "--from="
         THEN IF ins[i].arg = "package.json ."
                   THEN Rule6Loop(ins, i + 1, TRUE, found_broad_copy)
              ELSE IF ins[i].arg = ". ."
                   THEN Rule6Loop(ins, i + 1, found_dep_copy,
                                  IF found_dep_copy THEN found_broad_copy ELSE TRUE)
              ELSE Rule6Loop(ins, i + 1, found_dep_copy, found_broad_copy)
    ELSE Rule6Loop(ins, i + 1, found_dep_copy, found_broad_copy)

check_rule_6_deps_first(dockerfile) == Rule6Loop(dockerfile, 1, FALSE, FALSE)

Rule6Instrs ==
    {Ins("FROM", "node:18", "", ""), Ins("COPY", "", "", "package.json ."),
     Ins("COPY", "", "", ". ."), Ins("COPY", "", "", "--from="),
     Ins("RUN", "", "", "make")}

Rule6Init ==
    /\ callee = "check_rule_6_deps_first"
    /\ call_arg \in SeqsOf(Rule6Instrs, 1, MaxDockerLen)
    /\ call_ret = <<>>
    /\ call_pc = "call"

\* passed, detail = check_rule_6_deps_first(dockerfile, task)
CheckRule6 ==
    /\ call_pc = "call"
    /\ callee = "check_rule_6_deps_first"
    /\ call_ret' = check_rule_6_deps_first(call_arg)
    /\ call_pc' = "done"
    /\ UNCHANGED <<callee, call_arg>>
    /\ UNCHANGED call_idle

Rule6Next == CheckRule6

InitRule6 == Rule6Init /\ OthersIdle

SpecRule6 == InitRule6 /\ [][Rule6Next]_vars

\* instructions a and b lie in the same build stage: no FROM from a to b
C27_SameStage(ins, a, b) == \A k \in (a + 1)..b : ins[k].instr # "FROM"

\* instruction b is a broad COPY that no dependency COPY of its stage
\* precedes
C27_BroadFirst(ins, b) ==
    /\ ins[b].instr = "COPY"
    /\ ins[b].arg = ". ."
    /\ ~\E a \in 1..(b - 1) :
           /\ ins[a].instr = "COPY"
           /\ ins[a].arg = "package.json ."
           /\ C27_SameStage(ins, a, b)

\* C27 as stated: rule 6 fails whenever some build stage has a broad COPY
\* before every dependency COPY of that stage
C27_AsStated ==
    (callee = "check_rule_6_deps_first" /\ call_pc = "done") =>
        ((\E b \in 1..Len(call_arg) : C27_BroadFirst(call_arg, b))
             => ~call_ret.passed)

\* ---------------------------------------------------------------------
\* OpenAPI rule 8: RFC 7807 error schemas (evaluate_openapi.py)
\*
\* A spec is the sequence of the responses of its operations, in the order
\* the three nested loops visit them.  A response is a record
\*   code    the status code key, as str(code)
\*   resp    the response-level $ref, "" when the response has none
\*   schema  the schema of its media object: [kind, name, props] with kind
\*           "none" (no schema), "inline" (properties props) or "ref"
\*           (a $ref to #/components/schemas/<name>)
\* The components of the spec are fixed: ComponentSchemas, ComponentResponses.
\* ---------------------------------------------------------------------

required_fields == {"type", "title", "status", "detail"}

Schema(kind, name, props) == [kind |-> kind, name |-> name, props |-> props]

NoSchema == Schema("none", "", {})

\* _get_all_schemas(spec): components.schemas, a schema name to its properties
ComponentSchemas ==
    [n \in {"Problem", "Partial"} |->
        IF n = "Problem" THEN required_fields ELSE {"type", "title", "status"}]

\* components.responses: a response name to the schema of its media object
ComponentResponses ==
    [n \in {"Error"} |-> Schema("ref", "Problem", {})]

\* _resolve_schema_ref(spec, schema): the properties of the schema after
\* resolving $ref, or NoSchema when the reference names no schema (None)
_resolve_schema_ref(schema) ==
    IF schema.kind # "ref" THEN schema
    ELSE IF schema.name \in DOMAIN ComponentSchemas
         THEN Schema("inline", "", ComponentSchemas[schema.name])
         ELSE NoSchema

\* is_error: the code is "default", or has three characters and starts with
\* 4 or 5
IsErrorCode(code) == code \in {"default", "404", "500"}

\* one iteration of the loop over responses: the increments of
\* error_schemas_found and compliant_schemas
Rule8Step(response) ==
    IF ~IsErrorCode(response.code) THEN [found |-> 0, compliant |-> 0]
    ELSE IF response.resp # "" /\ response.resp \notin DOMAIN ComponentResponses
    THEN [found |-> 1, compliant |-> 0]
    ELSE LET schema == IF response.resp # ""
                       THEN ComponentResponses[response.resp]
                       ELSE response.schema
         IN  IF schema.kind = "none" THEN [found |-> 0, compliant |-> 0]
             ELSE LET resolved == _resolve_schema_ref(schema)
                  IN  IF resolved.kind = "none"
                      THEN [found |-> 1, compliant |-> 0]
                      ELSE [found |-> 1,
                            compliant |->
                                IF required_fields \subseteq resolved.props
                                THEN 1 ELSE 0]

RECURSIVE Rule8Loop(_, _, _, _)
Rule8Loop(responses, i, error_schemas_found, compliant_schemas) ==
    IF i > Len(responses)
    THEN [passed |-> error_schemas_found # 0 /\ compliant_schemas # 0,
          compliant |-> compliant_schemas,
          total |-> error_schemas_found]
    ELSE LET step == Rule8Step(responses[i])
         IN  Rule8Loop(responses, i + 1, error_schemas_found + step.found,
                       compliant_schemas + step.compliant)

check_rule_8_rfc7807(responses) == Rule8Loop(responses, 1, 0, 0)

MaxResponses == 2

Rule8Schemas ==
    {NoSchema, Schema("inline", "", required_fields),
     Schema("inline", "", {"type", "title"}),
     Schema("ref", "Problem", {}), Schema("ref", "Partial", {}),
     Schema("ref", "Missing", {})}

Rule8Responses ==
    {[code |-> c, resp |-> "", schema |-> s] :
        c \in {"200", "404", "500", "default"}, s \in Rule8Schemas}
    \cup {[code |-> c, resp |-> r, schema |-> NoSchema] :
        c \in {"200", "404"}, r \in {"Error", "Missing"}}

Rule8Init ==
    /\ callee = "check_rule_8_rfc7807"
    /\ call_arg \in SeqsOf(Rule8Responses, 1, MaxResponses)
    /\ call_ret = <<>>
    /\ call_pc = "call"

\* passed, detail = check_rule_8_rfc7807(spec, task)
CheckRule8 ==
    /\ call_pc = "call"
    /\ callee = "check_rule_8_rfc7807"
    /\ call_ret' = check_rule_8_rfc7807(call_arg)
    /\ call_pc' = "done"
    /\ UNCHANGED <<callee, call_arg>>
    /\ UNCHANGED call_idle

Rule8Next == CheckRule8

InitRule8 == Rule8Init /\ OthersIdle

SpecRule8 == InitRule8 /\ [][Rule8Next]_vars

\* the response is an error response that carries a schema whose
\* properties, after resolving $ref, lack one of the four fields
C22_Lacking(response) ==
    /\ IsErrorCode(response.code)
    /\ response.resp = ""
    /\ response.schema.kind # "none"
    /\ LET resolved == _resolve_schema_ref(response.schema)
       IN  resolved.kind = "none" \/ ~(required_fields \subseteq resolved.props)

\* C22: OpenAPI rule 8 fails whenever some 4xx, 5xx or default response has
\* a schema that, after resolving $ref, lacks one of type, title, status,
\* detail.
C22_AsStated ==
    (callee = "check_rule_8_rfc7807" /\ call_pc = "done") =>
        ((\E i \in 1..Len(call_arg) : C22_Lacking(call_arg[i]))
            => ~call_ret.passed)

\* ---------------------------------------------------------------------
\* SQL rule 4: computed columns use AS alias (evaluate_sql.py)
\*
\* The cleaned query is a sequence of tokens separated by single blanks.
\* "SUM(x)" and "ROW_NUMBER()" are calls of listed functions, "OVER (w)" a
\* window clause, "AS total" an alias; "region" is a column whose upper-case
\* spelling contains the letters ON.
\* ---------------------------------------------------------------------

\* agg_pattern matches at the token
IsAggCall(tok) == tok \in {"SUM(x)", "ROW_NUMBER()"}

\* 'WHERE' in s or 'HAVING' in s or 'ON' in s or 'GROUP BY' in s, for the
\* upper-cased token s: a substring test
HasClauseWord(tok) == tok \in {"WHERE", "region"}

\* context_before.split('SELECT')[-1]: the indices after the last SELECT
\* before position k, all of them when there is none
last_select(toks, k) ==
    LET sel == {j \in 1..(k - 1) : toks[j] = "SELECT"}
        from == IF sel = {} THEN 0
                ELSE CHOOSE j \in sel : \A o \in sel : o <= j
    IN  (from + 1)..(k - 1)

\* the body of the loop for the match at token k: TRUE when the match is
\* appended to missing_alias
Rule4Missing(toks, k) ==
    LET end == IF k < Len(toks) /\ toks[k + 1] = "OVER (w)" THEN k + 1 ELSE k
        aliased == end < Len(toks) /\ toks[end + 1] = "AS total"
    IN  /\ ~aliased
        /\ ~\E j \in last_select(toks, k) : HasClauseWord(toks[j])
        /\ toks[k] # "ROW_NUMBER()"
        /\ (end = Len(toks) \/ toks[end + 1] = ",")

check_rule_4_column_aliases(toks) ==
    LET matches == {k \in 1..Len(toks) : IsAggCall(toks[k])}
        missing_alias == {k \in matches : Rule4Missing(toks, k)}
    IN  [passed |-> missing_alias = {},
         detail |-> IF matches = {} THEN "n/a (no aggregations)"
                    ELSE IF missing_alias # {}
                         THEN "aggregations without AS alias"
                         ELSE "ok"]

MaxSqlTokens == 5

Rule4Tokens ==
    {"SELECT", "SUM(x)", "ROW_NUMBER()", "OVER (w)", "AS total", ",",
     "FROM t", "WHERE", "region"}

Rule4Init ==
    /\ callee = "check_rule_4_column_aliases"
    /\ call_arg \in {q \in SeqsOf(Rule4Tokens, 2, MaxSqlTokens) :
                        q[1] = "SELECT"}
    /\ call_ret = <<>>
    /\ call_pc = "call"

\* passed, detail = check_rule_4_column_aliases(sql_text, task)
CheckRule4 ==
    /\ call_pc = "call"
    /\ callee = "check_rule_4_column_aliases"
    /\ call_ret' = check_rule_4_column_aliases(call_arg)
    /\ call_pc' = "done"
    /\ UNCHANGED <<callee, call_arg>>
    /\ UNCHANGED call_idle

Rule4Next == CheckRule4

InitRule4 == Rule4Init /\ OthersIdle

SpecRule4 == InitRule4 /\ [][Rule4Next]_vars

\* the call at token k sits in a SELECT list (no WHERE clause was opened
\* since the last SELECT), is not ROW_NUMBER, and no alias follows its
\* closing parenthesis or its OVER clause
C23_Unaliased(toks, k) ==
    LET end == IF k < Len(toks) /\ toks[k + 1] = "OVER (w)" THEN k + 1 ELSE k
    IN  /\ toks[k] = "SUM(x)"
        /\ ~(end < Len(toks) /\ toks[end + 1] = "AS total")
        /\ \A j \in last_select(toks, k) : toks[j] # "WHERE"

\* C23: SQL rule 4 fails for every call of a listed function that has no
\* AS alias after its closing parenthesis (or OVER clause), unless the call
\* sits inside a WHERE, HAVING, ON or GROUP BY clause or is ROW_NUMBER,
\* whatever token follows the call.
C23_AsStated ==
    (callee = "check_rule_4_column_aliases" /\ call_pc = "done") =>
        ((\E k \in 1..Len(call_arg) : C23_Unaliased(call_arg, k))
            => ~call_ret.passed)

\* ---------------------------------------------------------------------
\* Terraform rule 9: no hardcoded region outside provider blocks
\* (evaluate_terraform.py)
\*
\* tf_text is a sequence of characters: the lines of the file joined by
\* newlines.  The lines come from Rule9Lines; none holds an AMI id or a
\* 12-digit number, so the region test alone decides the verdict.
\* ---------------------------------------------------------------------

TerraformHeader == <<"t", "e", "r", "r", "a", "f", "o", "r", "m", "{">>

ProviderHeader == <<"p", "r", "o", "v", "i", "d", "e", "r", " ", "\"", "a", "\"", "{">>

RegionLiteral == <<"\"", "u", "s", "-", "e", "a", "s", "t", "-", "1", "\"">>

\* the characters of a line of the file
LineChars(l) ==
    CASE l = "terraform{" -> TerraformHeader
      [] l = "provider{" -> ProviderHeader
      [] l = "region" -> RegionLiteral
      [] OTHER -> <<l>>

\* "\n".join(lines)
RECURSIVE JoinLines(_)
JoinLines(ls) ==
    IF ls = <<>> THEN <<>>
    ELSE IF Len(ls) = 1 THEN LineChars(ls[1])
    ELSE LineChars(ls[1]) \o <<"\n">> \o JoinLines(Tail(ls))

\* the pattern s matches at position i of text
MatchesAt(text, i, s) ==
    i + Len(s) - 1 <= Len(text) /\ SubSeq(text, i, i + Len(s) - 1) = s

\* re.finditer(r'(?:provider\s+"[^"]+"|terraform)\s*\{', tf_text): the
\* starts of the matches, each with len(match.group())
HeaderMatches(text) ==
    {m \in [start : 1..Len(text),
            len : {Len(TerraformHeader), Len(ProviderHeader)}] :
        \E h \in {TerraformHeader, ProviderHeader} :
            Len(h) = m.len /\ MatchesAt(text, m.start, h)}

\* _extract_block_body(text, open_brace_pos): len of the returned string,
\* scanning from position i with the running depth
RECURSIVE BlockBodyLen(_, _, _, _)
BlockBodyLen(text, open_brace_pos, i, depth) ==
    IF i > Len(text) THEN Len(text) - open_brace_pos + 1
    ELSE LET d == IF text[i] = "{" THEN depth + 1
                  ELSE IF text[i] = "}" THEN depth - 1 ELSE depth
         IN  IF text[i] = "}" /\ d = 0 THEN i - open_brace_pos + 1
             ELSE BlockBodyLen(text, open_brace_pos, i + 1, d)

_extract_block_body(text, open_brace_pos) ==
    BlockBodyLen(text, open_brace_pos, open_brace_pos, 0)

\* text[from:] with from a 0-based offset, as Python slices it
SliceFrom(text, from) ==
    IF from >= Len(text) THEN <<>> ELSE SubSeq(text, from + 1, Len(text))

\* the loop over reversed(matches): the matches still to process are those
\* that start at or before position last
RECURSIVE RemoveBlocks(_, _, _)
RemoveBlocks(tf_text, text_no_provider, last) ==
    LET ms == {m \in HeaderMatches(tf_text) : m.start <= last}
    IN  IF ms = {} THEN text_no_provider
        ELSE LET m == CHOOSE x \in ms : \A o \in ms : o.start <= x.start
                 block_body == _extract_block_body(tf_text, m.start + m.len - 1)
             IN  RemoveBlocks(
                     tf_text,
                     SubSeq(text_no_provider, 1, m.start - 1)
                         \o SliceFrom(text_no_provider,
                                      m.start - 1 + m.len + block_body - 1),
                     m.start - 1)

\* re.search(region_pattern, text)
HasRegion(text) == \E i \in 1..Len(text) : MatchesAt(text, i, RegionLiteral)

check_rule_9_no_hardcoded_ids(ls) ==
    LET tf_text == JoinLines(ls)
        text_no_provider == RemoveBlocks(tf_text, tf_text, Len(tf_text))
    IN  [passed |-> ~HasRegion(text_no_provider),
         text_no_provider |-> text_no_provider]

MaxRule9Lines == 5

Rule9Lines == {"terraform{", "provider{", "{", "}", "region", "x"}

Rule9Init ==
    /\ callee = "check_rule_9_no_hardcoded_ids"
    /\ call_arg \in SeqsOf(Rule9Lines, 1, MaxRule9Lines)
    /\ call_ret = <<>>
    /\ call_pc = "call"

\* passed, detail = check_rule_9_no_hardcoded_ids(tf_text, task)
CheckRule9 ==
    /\ call_pc = "call"
    /\ callee = "check_rule_9_no_hardcoded_ids"
    /\ call_ret' = check_rule_9_no_hardcoded_ids(call_arg)
    /\ call_pc' = "done"
    /\ UNCHANGED <<callee, call_arg>>
    /\ UNCHANGED call_idle

Rule9Next == CheckRule9

InitRule9 == Rule9Init /\ OthersIdle

SpecRule9 == InitRule9 /\ [][Rule9Next]_vars

\* the line that closes the block opened at line p: the first line from p
\* on at which the brace depth is back to zero, the last line if there is
\* none
RECURSIVE C24_Close(_, _, _, _)
C24_Close(ls, p, i, depth) ==
    IF i > Len(ls) THEN Len(ls)
    ELSE LET d == IF ls[i] \in {"terraform{", "provider{", "{"} THEN depth + 1
                  ELSE IF ls[i] = "}" THEN depth - 1 ELSE depth
         IN  IF ls[i] = "}" /\ d = 0 THEN i ELSE C24_Close(ls, p, i + 1, d)

\* line k lies inside a provider or terraform block
C24_Inside(ls, k) ==
    \E p \in 1..k : /\ ls[p] \in {"terraform{", "provider{"}
                    /\ k <= C24_Close(ls, p, p, 0)

\* C24: Terraform rule 9 fails exactly when a region literal lies outside
\* every provider and terraform block, for any number and nesting of such
\* blocks.
C24_AsStated ==
    (callee = "check_rule_9_no_hardcoded_ids" /\ call_pc = "done") =>
        (~call_ret.passed <=>
            \E k \in 1..Len(call_arg) :
                call_arg[k] = "region" /\ ~C24_Inside(call_arg, k))

\* ---------------------------------------------------------------------
\* The trailing-explanation trimmer of the commit-message extractor, called
\* on a candidate whose first line is a subject line.
\* ---------------------------------------------------------------------

MaxCommitLines == 5

TrimLines == {"", CmBody, CmExpl, CmFooter, CmRule, CmLetMe}

TrimInit ==
    /\ callee = "_trim_trailing_explanation"
    /\ call_arg \in {<<CmSubj>> \o rest :
                        rest \in SeqsOf(TrimLines, 0, MaxCommitLines - 1)}
    /\ call_ret = <<>>
    /\ call_pc = "call"

\* candidate = _trim_trailing_explanation(candidate)
Trim ==
    /\ call_pc = "call"
    /\ callee = "_trim_trailing_explanation"
    /\ call_ret' = _trim_trailing_explanation(call_arg)
    /\ call_pc' = "done"
    /\ UNCHANGED <<callee, call_arg>>
    /\ UNCHANGED call_idle

TrimNext == Trim

InitTrim == TrimInit /\ OthersIdle

SpecTrim == InitTrim /\ [][TrimNext]_vars

C25_Trimmed == callee = "_trim_trailing_explanation" /\ call_pc = "done"

\* line i comes right after a blank line and is neither a recognised footer
\* line nor an accepted body line
C25_Rejected(t, i) ==
    /\ i > 1
    /\ IsBlankLine(t[i - 1])
    /\ ~IsBlankLine(t[i])
    /\ ~_is_footer_line(t[i])
    /\ ~_is_body_line(t[i])

\* the result is a prefix of the lines of the input, begins with the
\* subject line and does not end with a blank line
C25_Prefix ==
    C25_Trimmed =>
        /\ Len(call_ret) \in 1..Len(call_arg)
        /\ call_ret = SubSeq(call_arg, 1, Len(call_ret))
        /\ ~IsBlankLine(call_ret[Len(call_ret)])

\* C25: the trimmer returns a prefix of the lines of the input that begins
\* with the subject line and has no trailing blank lines, and copying
\* stops at the first line after a blank-line boundary that is neither a
\* footer line nor an accepted body line: that line and the lines after it
\* are never part of the result.
C25_AsStated ==
    C25_Trimmed =>
        /\ Len(call_ret) \in 1..Len(call_arg)
        /\ call_ret = SubSeq(call_arg, 1, Len(call_ret))
        /\ ~IsBlankLine(call_ret[Len(call_ret)])
        /\ \A i \in 1..Len(call_arg) :
               C25_Rejected(call_arg, i) => Len(call_ret) < i

\* ---------------------------------------------------------------------
\* Credible intervals of a Monte-Carlo sample: beta_hdi (score_gemini.py)
\* and compute_hdi (variability_analysis.py).
\*
\* The sample np.random.beta returned is an input: a sequence of n_samples
\* values on a grid 0..MaxDraw.  width is a fraction [num, den].
\* ---------------------------------------------------------------------

\* insert v into the sorted sequence s
RECURSIVE InsertSorted(_, _)
InsertSorted(s, v) ==
    IF s = <<>> THEN <<v>>
    ELSE IF v <= Head(s) THEN <<v>> \o s
    ELSE <<Head(s)>> \o InsertSorted(Tail(s), v)

\* samples.sort(), np.sort(samples)
RECURSIVE SortSamples(_)
SortSamples(s) ==
    IF s = <<>> THEN <<>> ELSE InsertSorted(SortSamples(Tail(s)), Head(s))

\* beta_hdi(successes, trials, width, n_samples) on the drawn sample:
\* ci_start and ci_end are 0-based indices into the sorted sample
beta_hdi(draw, width, n_samples) ==
    LET samples == SortSamples(draw)
        ci_start == ((width.den - width.num) * n_samples) \div (2 * width.den)
        ci_end == ((width.den + width.num) * n_samples) \div (2 * width.den)
    IN  [hdi_w |-> samples[ci_end + 1] - samples[ci_start + 1],
         span |-> ci_end - ci_start,
         lo |-> samples[ci_start + 1],
         hi |-> samples[ci_end + 1]]

\* compute_hdi(samples, credibility)
compute_hdi(draw, credibility) ==
    LET samples == SortSamples(draw)
        n == Len(samples)
        interval_size == (credibility.num * n + credibility.den - 1)
                             \div credibility.den
    IN  IF interval_size >= n
        THEN [hdi_w |-> samples[n] - samples[1], span |-> n - 1,
              lo |-> samples[1], hi |-> samples[n]]
        ELSE LET widths == [k \in 1..(n - interval_size) |->
                               samples[k + interval_size] - samples[k]]
                 best == CHOOSE k \in DOMAIN widths :
                             /\ \A o \in DOMAIN widths : widths[k] <= widths[o]
                             /\ \A o \in 1..(k - 1) : widths[o] > widths[k]
             IN  [hdi_w |-> widths[best], span |-> interval_size,
                  lo |-> samples[best],
                  hi |-> samples[best + interval_size]]

MaxDraws == 5
MaxDraw == 2

HdiWidths == {[num |-> 1, den |-> 2], [num |-> 19, den |-> 20]}

HdiInit ==
    /\ callee \in {"beta_hdi", "compute_hdi"}
    /\ call_arg \in {[width |-> w, draw |-> d] :
                        w \in HdiWidths,
                        d \in SeqsOf(0..MaxDraw, MaxDraws - 1, MaxDraws)}
    /\ call_ret = <<>>
    /\ call_pc = "call"

\* hdi_w, p_below_10 = beta_hdi(n_passing, n_total, width, n_samples)
BetaHdi ==
    /\ call_pc = "call"
    /\ callee = "beta_hdi"
    /\ call_ret' = beta_hdi(call_arg.draw, call_arg.width, Len(call_arg.draw))
    /\ call_pc' = "done"
    /\ UNCHANGED <<callee, call_arg>>
    /\ UNCHANGED call_idle

\* lo, hi = compute_hdi(vals, credibility)
ComputeHdi ==
    /\ call_pc = "call"
    /\ callee = "compute_hdi"
    /\ call_ret' = compute_hdi(call_arg.draw, call_arg.width)
    /\ call_pc' = "done"
    /\ UNCHANGED <<callee, call_arg>>
    /\ UNCHANGED call_idle

HdiNext == BetaHdi \/ ComputeHdi

InitHdi == HdiInit /\ OthersIdle

SpecHdi == InitHdi /\ [][HdiNext]_vars

\* the returned width is minimal among the windows of the sorted sample
\* that span as many indices as the returned interval
C26_Shortest ==
    LET samples == SortSamples(call_arg.draw)
    IN  \A k \in 1..(Len(samples) - call_ret.span) :
            call_ret.hdi_w <= samples[k + call_ret.span] - samples[k]

\* compute_hdi returns a window of minimal width
C26_ComputeHdi == (callee = "compute_hdi" /\ call_pc = "done") => C26_Shortest

\* C26: the interval whose width beta_hdi returns is of minimal width among
\* all index windows of the sorted sample that contain the requested
\* probability mass.
C26_AsStated == (callee = "beta_hdi" /\ call_pc = "done") => C26_Shortest

\* ---------------------------------------------------------------------
\* Terraform rule 7: variables not scattered among resources
\* (evaluate_terraform.py)
\*
\* tf_text is a sequence of lines.  TfPolicy opens a data block,
\* TfCondVar is the attribute  variable = "..."  of a condition block
\* inside it, written indented.
\* ---------------------------------------------------------------------

TfPolicy == "data \"aws_iam_policy_document\" \"p\" {"
TfCondVar == "      variable = \"aws:SourceArn\""

\* re.findall(r'^\s*(resource|variable)\b', tf_text, re.MULTILINE): the
\* group matched on the line, "" when the line has no match
Rule7Match(l) ==
    IF l \in {TfRes} THEN "resource"
    ELSE IF l \in {TfVar, TfCondVar} THEN "variable"
    ELSE ""

RECURSIVE Rule7Blocks(_)
Rule7Blocks(t) ==
    IF t = <<>> THEN <<>>
    ELSE (IF Rule7Match(Head(t)) = "" THEN <<>> ELSE <<Rule7Match(Head(t))>>)
             \o Rule7Blocks(Tail(t))

\* the loop over blocks and the verdict after it
RECURSIVE Rule7Loop(_, _, _, _, _)
Rule7Loop(blocks, i, saw_resource, saw_var_after_resource,
          saw_resource_after_var_after_resource) ==
    IF i > Len(blocks) THEN ~saw_resource_after_var_after_resource
    ELSE IF blocks[i] = "resource"
    THEN Rule7Loop(blocks, i + 1, TRUE, saw_var_after_resource,
                   saw_resource_after_var_after_resource
                       \/ saw_var_after_resource)
    ELSE Rule7Loop(blocks, i + 1, saw_resource,
                   saw_var_after_resource \/ saw_resource,
                   saw_resource_after_var_after_resource)

check_rule_7_var_separation(t) ==
    LET blocks == Rule7Blocks(t)
    IN  IF blocks = <<>> \/ \A i \in 1..Len(blocks) : blocks[i] # "variable"
        THEN [passed |-> TRUE,
              detail |-> "needs_review (no variable blocks found)"]
        ELSE IF Rule7Loop(blocks, 1, FALSE, FALSE, FALSE)
        THEN [passed |-> TRUE, detail |-> "variables appear grouped"]
        ELSE [passed |-> FALSE,
              detail |-> "variables scattered between resource blocks"]

MaxRule7Lines == 5

Rule7Lines == {TfRes, TfVar, TfOut, TfPolicy, TfCondVar, TfClose}

\* the number of blocks open before line k of t
RECURSIVE Rule7Depth(_, _)
Rule7Depth(t, k) ==
    IF k <= 1 THEN 0
    ELSE Rule7Depth(t, k - 1)
         + (IF t[k - 1] = TfPolicy THEN 1 ELSE IF t[k - 1] = TfClose THEN -1 ELSE 0)

\* files whose braces nest properly: blocks start at the top level, the
\* attribute and the closing brace occur inside the data block only
Rule7WellFormed(t) ==
    /\ \A k \in 1..Len(t) :
           IF t[k] \in {TfCondVar, TfClose} THEN Rule7Depth(t, k) = 1
           ELSE Rule7Depth(t, k) = 0
    /\ Rule7Depth(t, Len(t) + 1) = 0

Rule7Init ==
    /\ callee = "check_rule_7_var_separation"
    /\ call_arg \in {t \in SeqsOf(Rule7Lines, 1, MaxRule7Lines) :
                        Rule7WellFormed(t)}
    /\ call_ret = <<>>
    /\ call_pc = "call"

\* passed, detail = check_rule_7_var_separation(tf_text, task)
CheckRule7 ==
    /\ call_pc = "call"
    /\ callee = "check_rule_7_var_separation"
    /\ call_ret' = check_rule_7_var_separation(call_arg)
    /\ call_pc' = "done"
    /\ UNCHANGED <<callee, call_arg>>
    /\ UNCHANGED call_idle

Rule7Next == CheckRule7

InitRule7 == Rule7Init /\ OthersIdle

SpecRule7 == InitRule7 /\ [][Rule7Next]_vars

\* the top-level blocks of the file hold a resource, later a variable,
\* later another resource
C28_Scattered(t) ==
    \E a, b, c \in 1..Len(t) :
        /\ a < b /\ b < c
        /\ t[a] = TfRes /\ t[b] = TfVar /\ t[c] = TfRes

\* on files in which no nested line starts with the word variable, the
\* rule fails exactly on scattered variable blocks
C28_FlatFiles ==
    (/\ callee = "check_rule_7_var_separation" /\ call_pc = "done"
     /\ \A k \in 1..Len(call_arg) : call_arg[k] # TfCondVar)
        => (~call_ret.passed <=> C28_Scattered(call_arg))

\* C28: Terraform rule 7 fails if and only if the sequence of top-level
\* blocks holds a resource block, later a variable block, later another
\* resource block.
C28_AsStated ==
    (callee = "check_rule_7_var_separation" /\ call_pc = "done")
        => (~call_ret.passed <=> C28_Scattered(call_arg))

-----------------------------------------------------------------------------
(* C29: the fenced-block path of the Terraform extractor keeps the blocks *)
(* of the text, once each, in the order of the text (specification SpecTf) *)

\* C29: when the text holds fenced blocks that look like Terraform, the
\* HCL returned is made of these blocks only, each exactly once, in
\* document order: no prose between two fences, no block twice, no tagged
\* block ahead of an earlier untagged block.
C29_AsStated ==
    (domain = "terraform" /\ pc = "done" /\ raw_output.k = "plain") =>
        \A q \in {SelectSeq(C13_Fenced(raw_output.v, 1), _looks_like_terraform)} :
            q # <<>> => ret.artifact = JStr(JoinBlank(q))

\* ---------------------------------------------------------------------
\* The failure rate of a chart run in the aggregation and scoring scripts:
\* load_chart (compute_stats.py), load_baseline (compute_paper_stats.py),
\* score_chart (score_gemini_for_figures.py).
\*
\* A run is [extraction_ok, pass_count, fail_count, absent_count]: the
\* verdicts of the 15 chart rules, all absent when extraction failed.
\* ---------------------------------------------------------------------

ChartRules == 15

ChartRun(ok, p, f) ==
    [extraction_ok |-> ok, pass_count |-> p, fail_count |-> f,
     absent_count |-> ChartRules - p - f]

ChartRuns ==
    {ChartRun(TRUE, x[1], x[2]) :
        x \in {y \in (0..ChartRules) \X (0..ChartRules) :
                  y[1] + y[2] <= ChartRules}}
    \cup {ChartRun(FALSE, 0, 0)}

\* the row of scores_deep.csv evaluate_deep.py writes for the run
deep_row(r) ==
    [pass_count |-> r.pass_count, fail_count |-> r.fail_count,
     deep_score |-> r.pass_count]

\* 1.0 - a
FracComplement(a) == Frac(a.den - a.num, a.den)

\* compute_stats.py: auto_score = pass_count, scored_rules = pass_count +
\* fail_count, failure_rate = 1.0 where scored_rules == 0, else
\* 1.0 - auto_score / scored_rules
load_chart(r) ==
    LET auto_score == deep_row(r).pass_count
        scored_rules == deep_row(r).pass_count + deep_row(r).fail_count
    IN  IF scored_rules = 0 THEN One
        ELSE FracComplement(Frac(auto_score, scored_rules))

\* compute_paper_stats.py: score = deep_score, max_rules = 15,
\* fr = 1.0 - score / max_rules
load_baseline(r) ==
    LET score == deep_row(r).deep_score
        max_rules == ChartRules
    IN  IF max_rules > 0 THEN FracComplement(Frac(score, max_rules)) ELSE One

\* score_gemini_for_figures.py: failure_rate of the returned dict
score_chart(r) ==
    IF ~r.extraction_ok THEN One
    ELSE LET total_scored == r.pass_count + r.fail_count
             rate == IF total_scored > 0
                     THEN Frac(r.fail_count, total_scored) ELSE One
         IN  Round4(rate)

ChartScripts == {"load_chart", "load_baseline", "score_chart"}

RateInit ==
    /\ callee \in ChartScripts
    /\ call_arg \in ChartRuns
    /\ call_ret = <<>>
    /\ call_pc = "call"

RateDone(rate) ==
    /\ call_ret' = rate
    /\ call_pc' = "done"
    /\ UNCHANGED <<callee, call_arg>>
    /\ UNCHANGED call_idle

\* df["failure_rate"] of the chart frame in compute_stats.py
LoadChart ==
    /\ call_pc = "call"
    /\ callee = "load_chart"
    /\ RateDone(load_chart(call_arg))

\* the fr of a chart row in compute_paper_stats.py
LoadBaseline ==
    /\ call_pc = "call"
    /\ callee = "load_baseline"
    /\ RateDone(load_baseline(call_arg))

\* score_chart(response_text, task_id)["failure_rate"]
ScoreChart ==
    /\ call_pc = "call"
    /\ callee = "score_chart"
    /\ RateDone(score_chart(call_arg))

RateNext == LoadChart \/ LoadBaseline \/ ScoreChart

InitRate == RateInit /\ OthersIdle

SpecRate == InitRate /\ [][RateNext]_vars

C30_Rated == callee \in ChartScripts /\ call_pc = "done"

\* every script maps an extraction failure to 1.0, and the three scripts
\* agree on the runs in which no rule is absent
C30_NoAbsent ==
    C30_Rated =>
        /\ ~call_arg.extraction_ok => call_ret = One
        /\ call_arg.extraction_ok /\ call_arg.absent_count = 0 =>
               Round4(call_ret) = Round4(load_baseline(call_arg))

\* C30: whatever the split of the 15 chart rules into pass, fail and
\* absent, every script gives the run the same failure rate (up to the
\* four decimals score_chart keeps): fail/(pass+fail) equals
\* 1 - deep_score/15, and an extraction failure is 1.0.
C30_AsStated ==
    C30_Rated =>
        /\ ~call_arg.extraction_ok => call_ret = One
        /\ Round4(call_ret) = Round4(FracComplement(
               Frac(deep_row(call_arg).deep_score, ChartRules)))

====
